---- MODULE Spec2Model ----
(***************************************************************************)
(* Grade aggregation and academic progression of the university backend:   *)
(* CalificacionService (src/app/services/calificacion.service.js) and      *)
(* ValidacionService                                                       *)
(* (src/universidad_backend/app/services/validacion.service.js).           *)
(*                                                                         *)
(* Numbers.  nota and ponderacion are DECIMAL(5,2) columns, so every       *)
(* numeric input is a multiple of 0.01 and is held here as an integer      *)
(* number of hundredths (61 is 6100).  JavaScript computes in IEEE-754     *)
(* doubles; the model computes the exact rational value.  The two agree    *)
(* except when the exact value handed to Math.round lies on a .5 tie: the  *)
(* double is then a hair above or below the tie, depending on the          *)
(* operands.  The variable errorBinario is the sign of that error and      *)
(* decides Math.round on exact ties only.                                  *)
(*                                                                         *)
(* A JavaScript value is a record [k, v]: k is "num" (a number or a        *)
(* numeric string, v its value in hundredths), "null", "undefined",        *)
(* "texto" (a string parseFloat cannot read) or "nan".                     *)
(***************************************************************************)
EXTENDS Integers, Sequences, FiniteSets, TLC

VARIABLES
    errorBinario,    \* -1 / 1: side on which a double falls off an exact tie
    calificaciones,  \* argument of _calcularNotaFinal
    notaCS,          \* CalificacionService._calcularNotaFinal(calificaciones)
    notaVS,          \* ValidacionService._calcularNotaFinal(calificaciones)
    estadoCS,        \* CalificacionService._determinarEstadoAprobacion(notaCS)
    estadoVS,        \* ValidacionService._determinarEstadoAprobacion(notaVS)
    pcNota,          \* "inicio", "calculada", "clasificada", "directa"
    inscripciones,   \* the Inscripcion rows handed to the aggregation functions
    cursos,          \* cursosConCalificaciones of CalificacionService
    estadisticas,    \* CalificacionService._calcularEstadisticasGenerales(cursos)
    estadisticasGenerales,  \* ValidacionService._calcularEstadisticasGenerales(inscripciones)
    pcEst,           \* "inicio", "procesados", "calculadas"
    cursosPorSemestre,     \* ValidacionService._agruparCursosPorSemestre(inscripciones)
    validacionProgresion,  \* ValidacionService._validarProgresionAcademica(cursosPorSemestre)
    pcProg,          \* "inicio", "agrupados", "validada"
    bd,              \* the rows: semestres, estudiantes, inscripciones
    llamada,         \* the call in progress: servicio, its caller and arguments
    pc,              \* "libre", "semestre", "estudiante", "inscripciones",
                     \* "semestres", "validar", "fin", "validado"
    semestreLeido,   \* the row Semestre.findOne gave (the local semestre)
    consultas,       \* the lookups issued by the call, in order, with their outcome
    calculos,        \* how many times the call ran _calcularNotaFinal
    resultado,       \* what the call ended with
    historial,       \* per aggregation function, the calls made so far:
                     \* argument, argument after the call, value returned
    datos,           \* argument of _generarObservacionesGenerales
    nivelRendimiento,  \* the label it prints next to the average
    pcPlantilla,     \* "inicio", "observado"
    reordenadas,     \* the evaluations of calificaciones in another order
    notaReordenadaCS,  \* CalificacionService._calcularNotaFinal(reordenadas)
    notaReordenadaVS,  \* ValidacionService._calcularNotaFinal(reordenadas)
    peticion,        \* the request a handler of CalificacionController got
    pcControlador,   \* the await the handler is at, or "terminado"
    respuestas,      \* the responses sent on res, in order
    pasos,           \* the collaborators the handler invoked, with their outcome
    resultadoCalificaciones,  \* the local of generarDocumentoCalificaciones
    datosReporte,    \* CalificacionesTemplate.generarDatos(resultadoCalificaciones)
    escrituras,      \* how many times another request changed the stored rows
    llamadas         \* the service calls in flight together, each with its
                     \* arguments, its locals and the await it is at

varsNota == <<calificaciones, notaCS, notaVS, estadoCS, estadoVS, pcNota>>

varsEst == <<cursos, estadisticas, estadisticasGenerales, pcEst>>

varsProg == <<cursosPorSemestre, validacionProgresion, pcProg>>

varsServicio ==
    <<bd, llamada, pc, semestreLeido, consultas, calculos, resultado, historial>>

varsPlantilla == <<datos, nivelRendimiento, pcPlantilla>>

varsOrden == <<reordenadas, notaReordenadaCS, notaReordenadaVS>>

varsControlador ==
    <<peticion, pcControlador, respuestas, pasos, resultadoCalificaciones,
      datosReporte, escrituras>>

varsConcurrencia == <<llamadas>>

varsPeticiones == <<varsPlantilla, varsOrden, varsControlador, varsConcurrencia>>

vars ==
    <<errorBinario, varsNota, inscripciones, varsEst, varsProg, varsServicio,
      varsPeticiones>>

-----------------------------------------------------------------------------
(* JavaScript values *)

Escala == 100

Null == [k |-> "null", v |-> 0]
Undefined == [k |-> "undefined", v |-> 0]
NaN == [k |-> "nan", v |-> 0]
Texto == [k |-> "texto", v |-> 0]
Num(x) == [k |-> "num", v |-> x]
Pendiente == [k |-> "pendiente", v |-> 0]

\* an array, or the null / undefined that `!calificaciones` catches
Arreglo(items) == [k |-> "array", items |-> items]
SinArreglo == [k |-> "null", items |-> <<>>]

parseFloat(x) == IF x.k = "num" THEN x ELSE NaN

Mas(a, b) == IF a.k = "num" /\ b.k = "num" THEN Num(a.v + b.v) ELSE NaN

Por(a, b) == IF a.k = "num" /\ b.k = "num" THEN Num(a.v * b.v) ELSE NaN

\* a >= n for a number n; any comparison with NaN is false
MayorIgual(a, n) == a.k = "num" /\ a.v >= n

\* Math.round(n / d) for integers n, d with d # 0: the nearest integer, an
\* exact tie going up (Math.round's rule) unless the double fell below it
MathRound(n, d) ==
    LET nn == IF d < 0 THEN -n ELSE n
        dd == IF d < 0 THEN -d ELSE d
        q == nn \div dd
        r == nn % dd
    IN  IF 2 * r > dd THEN q + 1
        ELSE IF 2 * r < dd THEN q
        ELSE IF errorBinario < 0 THEN q ELSE q + 1

-----------------------------------------------------------------------------
(* Grade calculator *)

\* cal => cal.nota !== null && cal.nota !== undefined
ConNotaCS(cal) == cal.nota.k # "null" /\ cal.nota.k # "undefined"

\* cal => cal.nota !== null
ConNotaVS(cal) == cal.nota.k # "null"

\* sumaPonderada after the forEach, in units of 10^-6:
\* (parseFloat(nota) * parseFloat(ponderacion)) / 100
RECURSIVE sumaPonderada(_)
sumaPonderada(cals) ==
    IF cals = <<>> THEN Num(0)
    ELSE LET n == Len(cals)
         IN  Mas(sumaPonderada(SubSeq(cals, 1, n - 1)),
                 Por(parseFloat(cals[n].nota), parseFloat(cals[n].ponderacion)))

\* sumaPonderaciones after the forEach, in hundredths
RECURSIVE sumaPonderaciones(_)
sumaPonderaciones(cals) ==
    IF cals = <<>> THEN Num(0)
    ELSE LET n == Len(cals)
         IN  Mas(sumaPonderaciones(SubSeq(cals, 1, n - 1)),
                 parseFloat(cals[n].ponderacion))

\* the weighted sum taken as the grade: ungraded weight counts as zero
NotaSinProporcion(sp, sw) ==
    IF sp.k = "num" /\ sw.k = "num" THEN Num(MathRound(sp.v, 100 * Escala)) ELSE NaN

\* sumaPonderada / sumaPonderaciones, the factor 100 forgotten
NotaSinPorCien(sp, sw) ==
    IF sp.k = "num" /\ sw.k = "num" THEN Num(MathRound(sp.v, 100 * sw.v)) ELSE NaN

\* (sumaPonderada * 100) / sumaPonderaciones, then
\* Math.round(notaFinal * 100) / 100; the result in hundredths
NotaProporcional(sp, sw) ==
    IF sp.k = "num" /\ sw.k = "num" THEN Num(MathRound(sp.v, sw.v)) ELSE NaN

\* the calculator without the filter on nota
CalcularSinFiltro(calificaciones_) ==
    LET sp == sumaPonderada(calificaciones_.items)
        sw == sumaPonderaciones(calificaciones_.items)
    IN  IF calificaciones_.k # "array" \/ Len(calificaciones_.items) = 0 THEN Null
        ELSE IF sw.k = "num" /\ sw.v = 0 THEN Null
        ELSE NotaProporcional(sp, sw)

\* a zero total weight taken as the grade 0
CalcularCeroSinPeso(calificaciones_) ==
    IF calificaciones_.k # "array" \/ Len(calificaciones_.items) = 0 THEN Num(0)
    ELSE LET calificacionesConNota == SelectSeq(calificaciones_.items, ConNotaCS)
             sp == sumaPonderada(calificacionesConNota)
             sw == sumaPonderaciones(calificacionesConNota)
         IN  IF Len(calificacionesConNota) = 0 THEN Null
             ELSE IF sw.k = "num" /\ sw.v = 0 THEN Num(0)
             ELSE NotaProporcional(sp, sw)

CalificacionService_calcularNotaFinal(calificaciones_) ==
    IF calificaciones_.k # "array" \/ Len(calificaciones_.items) = 0 THEN Null
    ELSE LET calificacionesConNota == SelectSeq(calificaciones_.items, ConNotaCS)
             sp == sumaPonderada(calificacionesConNota)
             sw == sumaPonderaciones(calificacionesConNota)
         IN  IF Len(calificacionesConNota) = 0 THEN Null
             ELSE IF sw.k = "num" /\ sw.v = 0 THEN Null
             ELSE NotaProporcional(sp, sw)

ValidacionService_calcularNotaFinal(calificaciones_) ==
    IF calificaciones_.k # "array" \/ Len(calificaciones_.items) = 0 THEN Null
    ELSE LET calificacionesConNota == SelectSeq(calificaciones_.items, ConNotaVS)
             sp == sumaPonderada(calificacionesConNota)
             sw == sumaPonderaciones(calificacionesConNota)
         IN  IF Len(calificacionesConNota) = 0 THEN Null
             ELSE IF sw.k = "num" /\ sw.v = 0 THEN Null
             ELSE NotaProporcional(sp, sw)

-----------------------------------------------------------------------------
(* Approval classifier *)

NotaMinima == 61

SinCalificar ==
    [codigo |-> "SIN_CALIFICAR", descripcion |-> "Sin Calificar",
     aprobado |-> FALSE, color |-> "warning"]

Aprobado ==
    [codigo |-> "APROBADO", descripcion |-> "Aprobado",
     aprobado |-> TRUE, color |-> "success"]

Reprobado ==
    [codigo |-> "REPROBADO", descripcion |-> "Reprobado",
     aprobado |-> FALSE, color |-> "danger"]

EstadoPendiente ==
    [codigo |-> "", descripcion |-> "", aprobado |-> FALSE, color |-> ""]

\* notaFinal > 61
ApruebaEstricto(notaFinal) == notaFinal.k = "num" /\ notaFinal.v > NotaMinima * Escala

\* notaFinal >= 61
Aprueba(notaFinal) == MayorIgual(notaFinal, NotaMinima * Escala)

CalificacionService_determinarEstadoAprobacion(notaFinal) ==
    IF notaFinal.k = "null" \/ notaFinal.k = "undefined" THEN SinCalificar
    ELSE IF Aprueba(notaFinal) THEN Aprobado
    ELSE Reprobado

ValidacionService_determinarEstadoAprobacion(notaFinal) ==
    IF notaFinal.k = "null" \/ notaFinal.k = "undefined" THEN SinCalificar
    ELSE IF Aprueba(notaFinal) THEN Aprobado
    ELSE Reprobado

-----------------------------------------------------------------------------
(* The calculator and the classifier applied to bounded inputs *)

MaxCals == 3

\* scores and weights as the Calificacion rows hold them (hundredths)
Notas == {Null, Num(0), Num(6099), Num(6100), Num(9000)}

Ponderaciones == {Num(0), Num(2000), Num(3000), Num(5000)}

Calificaciones == [nota : Notas, ponderacion : Ponderaciones]

RECURSIVE SeqHasta(_, _)
SeqHasta(S, n) ==
    IF n = 0 THEN {<<>>}
    ELSE LET prev == SeqHasta(S, n - 1)
         IN  prev \cup {Append(s, x) : s \in {t \in prev : Len(t) = n - 1}, x \in S}

\* final grades handed straight to the classifier
NotasFinales ==
    {Null, Undefined, NaN, Num(0), Num(6099), Num(6100), Num(6101), Num(10000)}

Semestre(id, anio, numero) == [id |-> id, anio |-> anio, numero_semestre |-> numero]

SinSemestre == Semestre(0, 0, 0)

\* what a call ends with: the object it returns, or an exception that
\* leaves it
Retorno(valor) == [tipo |-> "retorno", valor |-> valor]

Excepcion(mensaje) == [tipo |-> "excepcion", valor |-> [mensaje |-> mensaje]]

EnCurso == [tipo |-> "pendiente", valor |-> [mensaje |-> ""]]

\* the aggregation functions of the two services
Funciones ==
    {"CalificacionService._calcularNotaFinal",
     "ValidacionService._calcularNotaFinal",
     "CalificacionService._determinarEstadoAprobacion",
     "ValidacionService._determinarEstadoAprobacion",
     "CalificacionService._calcularEstadisticasGenerales",
     "ValidacionService._calcularEstadisticasGenerales",
     "ValidacionService._agruparCursosPorSemestre",
     "ValidacionService._validarProgresionAcademica",
     "ValidacionService._generarRecomendaciones"}

SinHistorial == historial = [f \in Funciones |-> {}]

SinServicio ==
    /\ bd = [semestres |-> {}, estudiantes |-> {}, inscripciones |-> <<>>]
    /\ llamada = [servicio |-> "", desde |-> "", idEstudiante |-> Undefined,
                  anio |-> Undefined, numeroSemestre |-> Undefined]
    /\ pc = "reposo"
    /\ semestreLeido = SinSemestre
    /\ consultas = <<>>
    /\ calculos = 0
    /\ resultado = EnCurso
    /\ SinHistorial

SinPlantilla ==
    /\ datos = [estadisticas |-> [promedioGeneral |-> Pendiente]]
    /\ nivelRendimiento = ""
    /\ pcPlantilla = "reposo"

SinOrden ==
    /\ reordenadas = SinArreglo
    /\ notaReordenadaCS = Pendiente
    /\ notaReordenadaVS = Pendiente

SinControlador ==
    /\ peticion = [handler |-> "", errores |-> FALSE, idEstudiante |-> Undefined,
                   anio |-> Undefined, numeroSemestre |-> Undefined]
    /\ pcControlador = "reposo"
    /\ respuestas = <<>>
    /\ pasos = <<>>
    /\ resultadoCalificaciones = Pendiente
    /\ datosReporte = Pendiente
    /\ escrituras = 0

SinConcurrencia == llamadas = <<>>

SinPeticiones == SinPlantilla /\ SinOrden /\ SinControlador /\ SinConcurrencia

SinNota ==
    /\ calificaciones = SinArreglo
    /\ notaCS = Pendiente
    /\ notaVS = Pendiente
    /\ estadoCS = EstadoPendiente
    /\ estadoVS = EstadoPendiente
    /\ pcNota = "reposo"

SinEstadisticas ==
    /\ cursos = <<>>
    /\ estadisticas = Pendiente
    /\ estadisticasGenerales = Pendiente
    /\ pcEst = "reposo"

SinProgresion ==
    /\ cursosPorSemestre = <<>>
    /\ validacionProgresion = Pendiente
    /\ pcProg = "reposo"

InitNota ==
    /\ errorBinario \in {-1, 1}
    /\ SinPeticiones
    /\ SinServicio
    /\ calificaciones \in
           {SinArreglo} \cup {Arreglo(s) : s \in SeqHasta(Calificaciones, MaxCals)}
    /\ notaCS = Pendiente
    /\ notaVS = Pendiente
    /\ estadoCS = EstadoPendiente
    /\ estadoVS = EstadoPendiente
    /\ pcNota = "inicio"
    /\ inscripciones = <<>>
    /\ SinEstadisticas
    /\ SinProgresion

\* notaFinal = this._calcularNotaFinal(calificaciones)
CalcularNota ==
    /\ pcNota = "inicio"
    /\ notaCS' = CalificacionService_calcularNotaFinal(calificaciones)
    /\ notaVS' = ValidacionService_calcularNotaFinal(calificaciones)
    /\ pcNota' = "calculada"
    /\ UNCHANGED <<errorBinario, calificaciones, estadoCS, estadoVS>>
    /\ UNCHANGED <<inscripciones, varsEst, varsProg, varsServicio,
                   varsPeticiones>>

\* estadoAprobacion = this._determinarEstadoAprobacion(notaFinal)
DeterminarEstado ==
    /\ pcNota = "calculada"
    /\ estadoCS' = CalificacionService_determinarEstadoAprobacion(notaCS)
    /\ estadoVS' = ValidacionService_determinarEstadoAprobacion(notaVS)
    /\ pcNota' = "clasificada"
    /\ UNCHANGED <<errorBinario, calificaciones, notaCS, notaVS>>
    /\ UNCHANGED <<inscripciones, varsEst, varsProg, varsServicio,
                   varsPeticiones>>

\* _determinarEstadoAprobacion called on a final grade given by the caller
ClasificarNota ==
    /\ pcNota = "inicio"
    /\ calificaciones = SinArreglo
    /\ \E n \in NotasFinales :
           /\ notaCS' = n
           /\ notaVS' = n
           /\ estadoCS' = CalificacionService_determinarEstadoAprobacion(n)
           /\ estadoVS' = ValidacionService_determinarEstadoAprobacion(n)
    /\ pcNota' = "directa"
    /\ UNCHANGED <<errorBinario, calificaciones>>
    /\ UNCHANGED <<inscripciones, varsEst, varsProg, varsServicio,
                   varsPeticiones>>

NextNota == CalcularNota \/ DeterminarEstado \/ ClasificarNota

SpecNota == InitNota /\ [][NextNota]_vars

-----------------------------------------------------------------------------
(* Claims on the calculator and the classifier (SpecNota) *)

Calculada == pcNota \in {"calculada", "clasificada"}

Clasificada == pcNota \in {"clasificada", "directa"}

Items == calificaciones.items

\* positions of the evaluations whose nota is a number
Puntuadas == {i \in 1..Len(Items) : Items[i].nota.k = "num"}

RECURSIVE SumaEn(_, _)
SumaEn(f, I) ==
    IF I = {} THEN 0
    ELSE LET i == CHOOSE j \in I : TRUE IN f[i] + SumaEn(f, I \ {i})

\* sum of score * weight and sum of weight over a set of positions
SumaNotaPorPeso(I) ==
    SumaEn([i \in 1..Len(Items) |-> Items[i].nota.v * Items[i].ponderacion.v], I)

SumaPeso(I) == SumaEn([i \in 1..Len(Items) |-> Items[i].ponderacion.v], I)

ClasificaBien(nota, estado) ==
    /\ estado \in {SinCalificar, Aprobado, Reprobado}
    /\ nota.k \in {"null", "undefined"} => estado.codigo = "SIN_CALIFICAR"
    /\ (nota.k = "num" /\ nota.v >= 6100) => estado.codigo = "APROBADO"
    /\ (nota.k = "num" /\ nota.v < 6100) => estado.codigo = "REPROBADO"
    /\ estado.aprobado <=> estado.codigo = "APROBADO"

\* C1: the classifier gives every final grade one status: null or undefined
\* gives SIN_CALIFICAR, a grade >= 61 APROBADO (61 included), a grade < 61
\* REPROBADO (60.99 included), and aprobado is true exactly for APROBADO.
C1_Clasificador ==
    Clasificada =>
        /\ ClasificaBien(notaCS, estadoCS)
        /\ ClasificaBien(notaVS, estadoVS)

C1_Witness ==
    /\ pcNota = "clasificada"
    /\ notaCS = Num(6100)
    /\ estadoCS = Aprobado
    /\ estadoVS = Aprobado

\* C2: a missing or empty evaluation list, and a list in which no evaluation
\* has a score, give a null final grade whatever the weights are.
C2_SinNotas ==
    (Calculada /\ \A i \in 1..Len(Items) : Items[i].nota = Null) =>
        /\ notaCS = Null
        /\ notaVS = Null

C2_Witness ==
    /\ Calculada
    /\ Len(Items) = 2
    /\ \A i \in 1..Len(Items) : Items[i].nota = Null /\ Items[i].ponderacion.v > 0
    /\ notaCS = Null

\* C3: when only some evaluations have a score and the scored weights do not
\* sum to zero, the final grade is sum(score * weight) / sum(weight) over the
\* scored evaluations (rounded to 2 decimals as the calculator rounds): it is
\* the grade of the list without its unscored evaluations, and one scored
\* evaluation of positive weight gives its own score.
C3_SoloPuntuadas ==
    (/\ Calculada
     /\ Puntuadas # {}
     /\ Puntuadas # 1..Len(Items)
     /\ SumaPeso(Puntuadas) # 0) =>
        LET esperada == Num(MathRound(SumaNotaPorPeso(Puntuadas), SumaPeso(Puntuadas)))
            sinAusentes ==
                Arreglo(SelectSeq(Items, LAMBDA cal : cal.nota.k = "num"))
        IN  /\ notaCS = esperada
            /\ notaVS = esperada
            /\ notaCS = CalificacionService_calcularNotaFinal(sinAusentes)
            /\ notaVS = ValidacionService_calcularNotaFinal(sinAusentes)
            /\ \A i \in Puntuadas :
                   Puntuadas = {i} => notaCS = Items[i].nota /\ notaVS = Items[i].nota

\* weights 30 and 20, only the first scored: the grade is that score
C3_Witness ==
    /\ Calculada
    /\ Len(Items) = 2
    /\ Items[1] = [nota |-> Num(9000), ponderacion |-> Num(3000)]
    /\ Items[2] = [nota |-> Null, ponderacion |-> Num(2000)]
    /\ notaCS = Num(9000)
    /\ notaVS = Num(9000)

\* C4: when every evaluation has a score and the weights sum to exactly 100,
\* the final grade is the simple weighted sum, sum(score * weight / 100),
\* rounded to 2 decimals.
C4_PesoCompleto ==
    (/\ Calculada
     /\ Len(Items) > 0
     /\ Puntuadas = 1..Len(Items)
     /\ SumaPeso(Puntuadas) = 100 * Escala) =>
        LET simple == Num(MathRound(SumaNotaPorPeso(Puntuadas), 100 * Escala))
        IN  notaCS = simple /\ notaVS = simple

\* 60.99 * 0.2 + 61 * 0.3 + 90 * 0.5 = 75.498, rounded 75.50
C4_Witness ==
    /\ Calculada
    /\ Items = << [nota |-> Num(6099), ponderacion |-> Num(2000)],
                  [nota |-> Num(6100), ponderacion |-> Num(3000)],
                  [nota |-> Num(9000), ponderacion |-> Num(5000)] >>
    /\ notaCS = Num(7550)
    /\ notaVS = Num(7550)

\* the quotient n / d rounded to the nearest integer, a tie going up
MitadHaciaArriba(n, d) == (2 * n + d) \div (2 * d)

\* C13: the final grade is the exact quotient (weightedSum * 100) /
\* weightTotal rounded to 2 decimals half up: a value exactly on a 0.005
\* boundary goes up.
C13_MitadHaciaArriba ==
    (Calculada /\ Puntuadas # {} /\ SumaPeso(Puntuadas) > 0) =>
        LET exacta == Num(MitadHaciaArriba(SumaNotaPorPeso(Puntuadas), SumaPeso(Puntuadas)))
        IN  notaCS = exacta /\ notaVS = exacta

-----------------------------------------------------------------------------
(* The calculator on values that are not numbers (SpecNotaAmplia): a score *)
(* or a weight may be a text parseFloat cannot read.                        *)

NotasAmplias == {Null, Texto, Num(6100), Num(9000)}

PonderacionesAmplias == {Texto, Num(5000)}

CalificacionesAmplias == [nota : NotasAmplias, ponderacion : PonderacionesAmplias]

InitNotaAmplia ==
    /\ errorBinario \in {-1, 1}
    /\ SinPeticiones
    /\ SinServicio
    /\ calificaciones \in
           {SinArreglo} \cup {Arreglo(s) : s \in SeqHasta(CalificacionesAmplias, MaxCals)}
    /\ notaCS = Pendiente
    /\ notaVS = Pendiente
    /\ estadoCS = EstadoPendiente
    /\ estadoVS = EstadoPendiente
    /\ pcNota = "inicio"
    /\ inscripciones = <<>>
    /\ SinEstadisticas
    /\ SinProgresion

SpecNotaAmplia == InitNotaAmplia /\ [][NextNota]_vars

\* neither the score nor the weight is a text that cannot be parsed
Legible(cal) == cal.nota.k # "texto" /\ cal.ponderacion.k # "texto"

\* C14: an evaluation whose score or weight cannot be parsed as a number
\* counts as absent: the final grade is the grade of the list without it, a
\* list of such evaluations only has no grade, and the course is not
\* classified APROBADO or REPROBADO on such a value.
C14_IlegibleComoAusente ==
    (pcNota = "clasificada" /\ calificaciones.k = "array") =>
        LET legibles == Arreglo(SelectSeq(calificaciones.items, Legible))
        IN  /\ notaCS = CalificacionService_calcularNotaFinal(legibles)
            /\ notaVS = ValidacionService_calcularNotaFinal(legibles)
            /\ Len(legibles.items) = 0 =>
                   /\ notaCS = Null
                   /\ estadoCS.codigo = "SIN_CALIFICAR"
                   /\ estadoVS.codigo = "SIN_CALIFICAR"

-----------------------------------------------------------------------------
(* The two copies of the calculator and of the classifier on the same      *)
(* evaluations, an absent score being null or undefined (SpecNotaAusente). *)

NotasAusentes == {Null, Undefined, Num(6100), Num(9000)}

PonderacionesAusentes == {Num(2000), Num(5000)}

CalificacionesAusentes == [nota : NotasAusentes, ponderacion : PonderacionesAusentes]

InitNotaAusente ==
    /\ errorBinario \in {-1, 1}
    /\ SinPeticiones
    /\ SinServicio
    /\ calificaciones \in
           {SinArreglo} \cup {Arreglo(s) : s \in SeqHasta(CalificacionesAusentes, MaxCals)}
    /\ notaCS = Pendiente
    /\ notaVS = Pendiente
    /\ estadoCS = EstadoPendiente
    /\ estadoVS = EstadoPendiente
    /\ pcNota = "inicio"
    /\ inscripciones = <<>>
    /\ SinEstadisticas
    /\ SinProgresion

SpecNotaAusente == InitNotaAusente /\ [][NextNota]_vars

\* C29: for every evaluation list, an absent score being null or undefined,
\* the two copies of _calcularNotaFinal return the same final grade and the
\* two copies of _determinarEstadoAprobacion the same status.
C29_CopiasEquivalentes ==
    /\ Calculada => notaCS = notaVS
    /\ Clasificada => estadoCS = estadoVS

-----------------------------------------------------------------------------
(* Semester statistics of CalificacionService *)

\* one element of cursosConCalificaciones, as the map of step 5 builds it
CursoConCalificaciones(inscripcion) ==
    LET notaFinal == CalificacionService_calcularNotaFinal(inscripcion.calificaciones)
    IN  [inscripcionId |-> inscripcion.id,
         curso |-> inscripcion.curso,
         calificaciones |-> inscripcion.calificaciones.items,
         notaFinal |-> notaFinal,
         estado |-> CalificacionService_determinarEstadoAprobacion(notaFinal),
         estadoInscripcion |-> inscripcion.estado]

ProcesarInscripciones(inscripciones_) ==
    [i \in 1..Len(inscripciones_) |-> CursoConCalificaciones(inscripciones_[i])]

\* cursos.reduce((sum, curso) => sum + curso.curso.creditos, 0)
RECURSIVE SumaCreditos(_)
SumaCreditos(cursos_) ==
    IF cursos_ = <<>> THEN 0
    ELSE SumaCreditos(SubSeq(cursos_, 1, Len(cursos_) - 1))
             + cursos_[Len(cursos_)].curso.creditos

\* sumaNotasPonderadas after the forEach: notaFinal * creditos
RECURSIVE SumaNotasPonderadas(_)
SumaNotasPonderadas(cursos_) ==
    IF cursos_ = <<>> THEN Num(0)
    ELSE LET c == cursos_[Len(cursos_)]
         IN  Mas(SumaNotasPonderadas(SubSeq(cursos_, 1, Len(cursos_) - 1)),
                 Por(c.notaFinal, Num(c.curso.creditos)))

\* creditosTotales > 0 ? sumaNotasPonderadas / creditosTotales : 0, then
\* Math.round(promedioGeneral * 100) / 100
PromedioRedondeado(suma, creditos) ==
    IF creditos > 0
    THEN (IF suma.k = "num" THEN Num(MathRound(suma.v, creditos)) ELSE NaN)
    ELSE Num(0)

\* the filter dropped: every course counts as graded
TieneNotaFinalSiempre(curso) == TRUE

\* curso => curso.notaFinal !== null
TieneNotaFinal(curso) == curso.notaFinal.k # "null"

\* every graded course taken as passed
CualquieraAprobado(curso) == TRUE

EsAprobado(curso) == curso.estado.aprobado

NoEsAprobado(curso) == ~curso.estado.aprobado

CalificacionService_calcularEstadisticasGenerales(cursosConCalificaciones) ==
    LET cursosConNota == SelectSeq(cursosConCalificaciones, TieneNotaFinal)
        cursosAprobados == SelectSeq(cursosConNota, EsAprobado)
        cursosReprobados == SelectSeq(cursosConNota, NoEsAprobado)
    IN  IF Len(cursosConNota) = 0
        THEN [totalCursos |-> Len(cursosConCalificaciones),
              cursosCalificados |-> 0,
              cursosAprobados |-> 0,
              cursosReprobados |-> 0,
              promedioGeneral |-> Null,
              creditosTotales |-> SumaCreditos(cursosConCalificaciones),
              creditosAprobados |-> 0]
        ELSE [totalCursos |-> Len(cursosConCalificaciones),
              cursosCalificados |-> Len(cursosConNota),
              cursosAprobados |-> Len(cursosAprobados),
              cursosReprobados |-> Len(cursosReprobados),
              promedioGeneral |->
                  PromedioRedondeado(SumaNotasPonderadas(cursosConNota),
                                     SumaCreditos(cursosConNota)),
              creditosTotales |-> SumaCreditos(cursosConCalificaciones),
              creditosAprobados |-> SumaCreditos(cursosAprobados)]

-----------------------------------------------------------------------------
(* Semester aggregator of ValidacionService *)

\* `${semestre.anio}-${semestre.numero_semestre}`
claveSemestre(semestre) ==
    ToString(semestre.anio) \o "-" \o ToString(semestre.numero_semestre)

\* `${semestre.numero_semestre}(degree sign) Semestre ${semestre.anio}`
Descripcion(semestre) ==
    ToString(semestre.numero_semestre) \o " Semestre " \o ToString(semestre.anio)

\* the element pushed on grupos[claveSemestre].cursos
CursoValidado(inscripcion) ==
    LET notaFinal == ValidacionService_calcularNotaFinal(inscripcion.calificaciones)
    IN  [inscripcionId |-> inscripcion.id,
         curso |-> inscripcion.curso,
         notaFinal |-> notaFinal,
         estado |-> ValidacionService_determinarEstadoAprobacion(notaFinal),
         estadoInscripcion |-> inscripcion.estado,
         cantidadEvaluaciones |-> Len(inscripcion.calificaciones.items),
         validado |-> notaFinal.k # "null" /\ Aprueba(notaFinal)]

\* grupos after the forEach: the groups in the order their keys were first
\* inserted, which is the order Object.values lists these keys in
RECURSIVE Grupos(_)
Grupos(inscripciones_) ==
    IF inscripciones_ = <<>> THEN <<>>
    ELSE LET n == Len(inscripciones_)
             inscripcion == inscripciones_[n]
             semestre == inscripcion.semestre
             antes == Grupos(SubSeq(inscripciones_, 1, n - 1))
             clave == claveSemestre(semestre)
             nuevo == [clave |-> clave,
                       semestre |-> [id |-> semestre.id,
                                     anio |-> semestre.anio,
                                     numero |-> semestre.numero_semestre,
                                     descripcion |-> Descripcion(semestre)],
                       cursos |-> <<>>]
             conGrupo == IF \E g \in 1..Len(antes) : antes[g].clave = clave
                         THEN antes
                         ELSE Append(antes, nuevo)
         IN  [g \in 1..Len(conGrupo) |->
                 IF conGrupo[g].clave = clave
                 THEN [conGrupo[g] EXCEPT !.cursos = Append(@, CursoValidado(inscripcion))]
                 ELSE conGrupo[g]]

\* the comparator with the fields taken in the other order
CompararPorNumero(a, b) ==
    IF a.semestre.numero # b.semestre.numero
    THEN a.semestre.numero - b.semestre.numero
    ELSE a.semestre.anio - b.semestre.anio

\* the sort comparator: negative when a goes before b
CompararSemestres(a, b) ==
    IF a.semestre.anio # b.semestre.anio
    THEN a.semestre.anio - b.semestre.anio
    ELSE a.semestre.numero - b.semestre.numero

\* Array.prototype.sort, which is stable: x goes after the last element that
\* does not compare greater than it
Insertar(ordenados, x) ==
    LET menores == {i \in 1..Len(ordenados) : CompararSemestres(ordenados[i], x) <= 0}
        k == IF menores = {} THEN 0 ELSE CHOOSE i \in menores : \A j \in menores : j <= i
    IN  SubSeq(ordenados, 1, k) \o <<x>> \o SubSeq(ordenados, k + 1, Len(ordenados))

RECURSIVE Ordenar(_)
Ordenar(grupos) ==
    IF grupos = <<>> THEN <<>>
    ELSE Insertar(Ordenar(SubSeq(grupos, 1, Len(grupos) - 1)), grupos[Len(grupos)])

SinClave(grupo) == [semestre |-> grupo.semestre, cursos |-> grupo.cursos]

_agruparCursosPorSemestre(inscripciones_) ==
    LET grupos == Ordenar(Grupos(inscripciones_))
    IN  [g \in 1..Len(grupos) |-> SinClave(grupos[g])]

-----------------------------------------------------------------------------
(* Progression evaluator of ValidacionService *)

CreditosMinimos == 12

PorcentajeMinimo == 75

\* an alert string: the semester's description, the kind of alert and the
\* number printed in it
Alerta(semestre, texto, valor) ==
    [semestre |-> semestre.semestre.descripcion, texto |-> texto, valor |-> valor]

EsValidado(c) == c.validado

\* every course that is not passed taken as failed, ungraded ones too
EsNoValidado(c) == ~c.validado

\* c => c.notaFinal !== null && !c.validado
EsReprobado(c) == c.notaFinal.k # "null" /\ ~c.validado

\* FormatHelper.formatearNumero(porcentajeAprobacion, 1), in tenths
PorcentajeFormateado(aprobados, total) == MathRound(aprobados * 1000, total)

\* the checks of one semester with the approval percentage left out
AlertasSemestreSinPorcentaje(semestre) ==
    LET cursos_ == semestre.cursos
        cursosReprobados == Len(SelectSeq(cursos_, EsReprobado))
        creditosSemestre == SumaCreditos(cursos_)
    IN  (IF creditosSemestre < CreditosMinimos
         THEN <<Alerta(semestre, "Carga academica baja", creditosSemestre)>>
         ELSE <<>>)
        \o (IF cursosReprobados > 0
            THEN <<Alerta(semestre, "curso(s) reprobado(s)", cursosReprobados)>>
            ELSE <<>>)

\* a load of 12 credits taken as low
CargaBajaHastaElMinimo(semestre) == SumaCreditos(semestre.cursos) <= CreditosMinimos

\* creditosSemestre < 12
TieneCargaBaja(semestre) == SumaCreditos(semestre.cursos) < CreditosMinimos

\* cursosReprobados > 0
TieneReprobados(semestre) == Len(SelectSeq(semestre.cursos, EsReprobado)) > 0

\* an approval of exactly 75 % taken as low
PorcentajeBajoHastaElMinimo(cursosAprobados, total) ==
    total > 0 /\ cursosAprobados * 100 <= PorcentajeMinimo * total

\* porcentajeAprobacion < 75 && cursos.length > 0, with porcentajeAprobacion
\* = (cursosAprobados / cursos.length) * 100
PorcentajeBajo(cursosAprobados, total) ==
    total > 0 /\ cursosAprobados * 100 < PorcentajeMinimo * total

\* the alerts one semester pushes, in the order of the three checks
AlertasSemestre(semestre) ==
    LET cursos_ == semestre.cursos
        cursosAprobados == Len(SelectSeq(cursos_, EsValidado))
        cursosReprobados == Len(SelectSeq(cursos_, EsReprobado))
        creditosSemestre == SumaCreditos(cursos_)
    IN  (IF TieneCargaBaja(semestre)
         THEN <<Alerta(semestre, "Carga academica baja", creditosSemestre)>>
         ELSE <<>>)
        \o (IF TieneReprobados(semestre)
            THEN <<Alerta(semestre, "curso(s) reprobado(s)", cursosReprobados)>>
            ELSE <<>>)
        \o (IF PorcentajeBajo(cursosAprobados, Len(cursos_))
            THEN <<Alerta(semestre, "Bajo porcentaje de aprobacion",
                          PorcentajeFormateado(cursosAprobados, Len(cursos_)))>>
            ELSE <<>>)

\* the alerts that calls made before left behind
AlertasDeAntes ==
    LET antes == historial["ValidacionService._validarProgresionAcademica"]
    IN  IF antes = {} THEN <<>>
        ELSE (CHOOSE h \in antes : \A g \in antes : Len(g.salida.alertas) <= Len(h.salida.alertas)).salida.alertas

\* const alertas = []
AlertasAlEntrar == <<>>

RECURSIVE Alertas(_)
Alertas(cursosPorSemestre_) ==
    IF cursosPorSemestre_ = <<>> THEN AlertasAlEntrar
    ELSE LET n == Len(cursosPorSemestre_)
         IN  Alertas(SubSeq(cursosPorSemestre_, 1, n - 1))
                 \o AlertasSemestre(cursosPorSemestre_[n])

\* alertas.some(a => a.includes(texto)): the description of a semester holds
\* digits and the word Semestre only, so the match is on the kind of alert
AlgunaIncluye(alertas, texto) == \E i \in 1..Len(alertas) : alertas[i].texto = texto

\* the positive recommendations pushed whatever was pushed before
RecomendacionesConRefuerzoSiempre(alertas, semestresConReprobados) ==
    (IF semestresConReprobados > 0
     THEN <<"Considerar repetir cursos reprobados en proximas oportunidades",
            "Solicitar tutoria academica para materias de mayor dificultad">>
     ELSE <<>>)
    \o (IF AlgunaIncluye(alertas, "Carga academica baja")
        THEN <<"Incrementar la carga academica para mantener progresion normal">>
        ELSE <<>>)
    \o (IF AlgunaIncluye(alertas, "Bajo porcentaje de aprobacion")
        THEN <<"Revisar metodos de estudio y tecnicas de aprendizaje",
               "Considerar apoyo psicopedagogico si es necesario">>
        ELSE <<>>)
    \o <<"Mantener el excelente desempeno academico",
          "Considerar participar en actividades extracurriculares">>

\* the recommendations of a kind pushed once for every alert of that kind
RECURSIVE RecomendacionesPorAlerta(_, _)
RecomendacionesPorAlerta(alertas, semestresConReprobados) ==
    IF alertas = <<>>
    THEN <<>>
    ELSE LET n == Len(alertas)
             a == alertas[n]
         IN  RecomendacionesPorAlerta(SubSeq(alertas, 1, n - 1), semestresConReprobados)
             \o (IF a.texto = "curso(s) reprobado(s)"
                 THEN <<"Considerar repetir cursos reprobados en proximas oportunidades",
                        "Solicitar tutoria academica para materias de mayor dificultad">>
                 ELSE IF a.texto = "Carga academica baja"
                 THEN <<"Incrementar la carga academica para mantener progresion normal">>
                 ELSE <<"Revisar metodos de estudio y tecnicas de aprendizaje",
                        "Considerar apoyo psicopedagogico si es necesario">>)

_generarRecomendaciones(alertas, semestresConReprobados) ==
    LET r1 == IF semestresConReprobados > 0
              THEN <<"Considerar repetir cursos reprobados en proximas oportunidades",
                     "Solicitar tutoria academica para materias de mayor dificultad">>
              ELSE <<>>
        r2 == IF AlgunaIncluye(alertas, "Carga academica baja")
              THEN <<"Incrementar la carga academica para mantener progresion normal">>
              ELSE <<>>
        r3 == IF AlgunaIncluye(alertas, "Bajo porcentaje de aprobacion")
              THEN <<"Revisar metodos de estudio y tecnicas de aprendizaje",
                     "Considerar apoyo psicopedagogico si es necesario">>
              ELSE <<>>
        recomendaciones == r1 \o r2 \o r3
    IN  IF Len(recomendaciones) = 0
        THEN <<"Mantener el excelente desempeno academico",
               "Considerar participar en actividades extracurriculares">>
        ELSE recomendaciones

\* the tier with the limits of BUENA and REGULAR one lower
NivelEstricto(n) ==
    IF n = 0 THEN "EXCELENTE"
    ELSE IF n < 2 THEN "BUENA"
    ELSE IF n < 4 THEN "REGULAR"
    ELSE "DEFICIENTE"

\* nivelProgresion from alertas.length
NivelProgresion(n) ==
    IF n = 0 THEN "EXCELENTE"
    ELSE IF n <= 2 THEN "BUENA"
    ELSE IF n <= 4 THEN "REGULAR"
    ELSE "DEFICIENTE"

Observacion(n) ==
    IF n = 0 THEN "Progresion academica excelente sin observaciones"
    ELSE IF n <= 2 THEN "Progresion academica buena con observaciones menores"
    ELSE IF n <= 4 THEN "Progresion academica regular, requiere atencion"
    ELSE "Progresion academica deficiente, requiere intervencion academica"

\* attention asked for from two alerts on
RequiereAtencionDesdeDos(n) == n >= 2

\* requiereAtencion: alertas.length > 2
RequiereAtencion(n) == n > 2

_validarProgresionAcademica(cursosPorSemestre_) ==
    LET alertas == Alertas(cursosPorSemestre_)
        semestresBajoCursos == Len(SelectSeq(cursosPorSemestre_, TieneCargaBaja))
        semestresConReprobados == Len(SelectSeq(cursosPorSemestre_, TieneReprobados))
    IN  [nivel |-> NivelProgresion(Len(alertas)),
         alertas |-> alertas,
         observaciones |-> <<Observacion(Len(alertas))>>,
         semestresBajoCursos |-> semestresBajoCursos,
         semestresConReprobados |-> semestresConReprobados,
         requiereAtencion |-> RequiereAtencion(Len(alertas)),
         recomendaciones |-> _generarRecomendaciones(alertas, semestresConReprobados)]

-----------------------------------------------------------------------------
(* Overall statistics of ValidacionService *)

\* Math.round((n / d) * 100) / 100 in hundredths; 0 when the guard d > 0 fails
RazonRedondeada(n, d) == IF d > 0 THEN MathRound(n * Escala, d) ELSE 0

EficienciaClasificacion(aprobados, total) ==
    IF total = 0 THEN "Deficiente"
    ELSE IF aprobados * 100 >= 90 * total THEN "Excelente"
    ELSE IF aprobados * 100 >= 80 * total THEN "Muy Buena"
    ELSE IF aprobados * 100 >= 70 * total THEN "Buena"
    ELSE IF aprobados * 100 >= 60 * total THEN "Regular"
    ELSE "Deficiente"

_calcularEficienciaAcademica(cursosAprobados, totalCursos, totalSemestres) ==
    [porcentaje |-> RazonRedondeada(cursosAprobados * 100, totalCursos),
     clasificacion |-> EficienciaClasificacion(cursosAprobados, totalCursos),
     promedioCursosPorSemestre |-> RazonRedondeada(totalCursos, totalSemestres)]

NotasDe(inscripciones_) ==
    [i \in 1..Len(inscripciones_) |->
        [curso |-> inscripciones_[i].curso,
         notaFinal |-> ValidacionService_calcularNotaFinal(inscripciones_[i].calificaciones)]]

EsPendiente(c) == c.notaFinal.k = "null"

AprobadoVS(c) == c.notaFinal.k # "null" /\ Aprueba(c.notaFinal)

ReprobadoVS(c) == c.notaFinal.k # "null" /\ ~Aprueba(c.notaFinal)

ConNotaFinalVS(c) == c.notaFinal.k # "null"

\* promedioGeneral ? Math.round(promedioGeneral * 100) / 100 : null, with
\* promedioGeneral = creditosConNota > 0 ? suma / creditosConNota : null;
\* zero and NaN are falsy
PromedioVS(suma, creditosConNota) ==
    IF creditosConNota > 0 /\ suma.k = "num" /\ suma.v # 0
    THEN Num(MathRound(suma.v, creditosConNota))
    ELSE Null

ValidacionService_calcularEstadisticasGenerales(inscripciones_) ==
    LET cursos_ == NotasDe(inscripciones_)
        aprobados == SelectSeq(cursos_, AprobadoVS)
        conNota == SelectSeq(cursos_, ConNotaFinalVS)
        totalCursos == Len(inscripciones_)
        creditosTotales == SumaCreditos(cursos_)
        creditosAprobados == SumaCreditos(aprobados)
        semestres == {claveSemestre(inscripciones_[i].semestre) : i \in 1..Len(inscripciones_)}
    IN  [totalCursos |-> totalCursos,
         cursosAprobados |-> Len(aprobados),
         cursosReprobados |-> Len(SelectSeq(cursos_, ReprobadoVS)),
         cursosPendientes |-> Len(SelectSeq(cursos_, EsPendiente)),
         creditosTotales |-> creditosTotales,
         creditosAprobados |-> creditosAprobados,
         promedioGeneral |-> PromedioVS(SumaNotasPonderadas(conNota), SumaCreditos(conNota)),
         porcentajeAprobacion |->
             IF totalCursos > 0 THEN <<Len(aprobados) * 100, totalCursos>> ELSE <<0, 1>>,
         porcentajeCreditos |->
             IF creditosTotales > 0 THEN <<creditosAprobados * 100, creditosTotales>>
             ELSE <<0, 1>>,
         totalSemestres |-> Cardinality(semestres),
         eficienciaAcademica |->
             _calcularEficienciaAcademica(Len(aprobados), totalCursos, Cardinality(semestres))]

-----------------------------------------------------------------------------
(* The aggregation functions applied to bounded sets of enrollments *)

MaxCursos == 3

MaxInscripciones == 4

MaxSemestres == 5

Cal(nota, ponderacion) == [nota |-> nota, ponderacion |-> ponderacion]

\* the evaluations of one enrollment: none; 90 and 80 at 50 % each; 40 at
\* 100 %; a score at weight 0; the score 0; a pending evaluation
ListasCalificaciones ==
    { <<>>,
      <<Cal(Num(9000), Num(5000)), Cal(Num(8000), Num(5000))>>,
      <<Cal(Num(4000), Num(10000))>>,
      <<Cal(Num(5000), Num(0))>>,
      <<Cal(Num(0), Num(10000))>>,
      <<Cal(Null, Num(5000))>> }

Creditos == {3, 4}

\* an Inscripcion row with its includes (curso, semestre, calificaciones)
Inscripcion(id, semestre, creditos, lista) ==
    [id |-> id,
     semestre |-> semestre,
     curso |-> [id |-> id, creditos |-> creditos],
     calificaciones |-> Arreglo(lista),
     estado |-> "ACTIVO"]

\* the i-th term in time: 2021-1, 2021-2, 2022-1, ...
Termino(i) == Semestre(i, 2020 + ((i + 1) \div 2), 2 - (i % 2))

\* the enrollments of one term, as findAll returns them for one semester
InscripcionesDeUnSemestre ==
    { [i \in 1..Len(s) |-> Inscripcion(i, Termino(1), s[i][1], s[i][2])] :
          s \in SeqHasta(Creditos \X ListasCalificaciones, MaxCursos) }

InitEstadisticas ==
    /\ errorBinario \in {-1, 1}
    /\ SinPeticiones
    /\ SinServicio
    /\ SinNota
    /\ inscripciones \in InscripcionesDeUnSemestre
    /\ cursos = <<>>
    /\ estadisticas = Pendiente
    /\ estadisticasGenerales = Pendiente
    /\ pcEst = "inicio"
    /\ SinProgresion

\* step 5 of obtenerCalificacionesPorSemestre: the map over inscripciones
ProcesarCursos ==
    /\ pcEst = "inicio"
    /\ cursos' = ProcesarInscripciones(inscripciones)
    /\ pcEst' = "procesados"
    /\ UNCHANGED <<errorBinario, varsNota, inscripciones, estadisticas,
                   estadisticasGenerales, varsProg, varsServicio,
                   varsPeticiones>>

\* step 6: estadisticas = this._calcularEstadisticasGenerales(cursos), and
\* step 4 of obtenerValidacionCompleta on the same rows:
\* estadisticasGenerales = this._calcularEstadisticasGenerales(inscripciones)
CalcularEstadisticas ==
    /\ pcEst = "procesados"
    /\ estadisticas' = CalificacionService_calcularEstadisticasGenerales(cursos)
    /\ estadisticasGenerales' =
           ValidacionService_calcularEstadisticasGenerales(inscripciones)
    /\ pcEst' = "calculadas"
    /\ UNCHANGED <<errorBinario, varsNota, inscripciones, cursos, varsProg, varsServicio,
                   varsPeticiones>>

NextEstadisticas == ProcesarCursos \/ CalcularEstadisticas

SpecEstadisticas == InitEstadisticas /\ [][NextEstadisticas]_vars

\* enrollments of several terms in any order: two kinds of course in each of
\* the terms 2023-2, 2024-1, 2024-2 and 2025-1
TerminosSueltos ==
    {Semestre(1, 2024, 2), Semestre(2, 2023, 2), Semestre(3, 2025, 1), Semestre(4, 2024, 1)}

CursosSueltos ==
    { <<4, <<Cal(Num(9000), Num(5000)), Cal(Num(8000), Num(5000))>> >>, <<3, <<>> >> }

InscripcionesSueltas ==
    { [i \in 1..Len(s) |-> Inscripcion(i, s[i][1], s[i][2][1], s[i][2][2])] :
          s \in SeqHasta(TerminosSueltos \X CursosSueltos, MaxInscripciones) }

InitSemestres ==
    /\ errorBinario \in {-1, 1}
    /\ SinPeticiones
    /\ SinServicio
    /\ SinNota
    /\ inscripciones \in InscripcionesSueltas
    /\ SinEstadisticas
    /\ cursosPorSemestre = <<>>
    /\ validacionProgresion = Pendiente
    /\ pcProg = "inicio"

\* step 4 of obtenerValidacionCompleta
Agrupar ==
    /\ pcProg = "inicio"
    /\ cursosPorSemestre' = _agruparCursosPorSemestre(inscripciones)
    /\ pcProg' = "agrupados"
    /\ UNCHANGED <<errorBinario, varsNota, inscripciones, varsEst, validacionProgresion,
                   varsServicio,
                   varsPeticiones>>

\* step 6 of obtenerValidacionCompleta
ValidarProgresion ==
    /\ pcProg = "agrupados"
    /\ validacionProgresion' = _validarProgresionAcademica(cursosPorSemestre)
    /\ pcProg' = "validada"
    /\ UNCHANGED <<errorBinario, varsNota, inscripciones, varsEst, cursosPorSemestre,
                   varsServicio,
                   varsPeticiones>>

NextProgresion == Agrupar \/ ValidarProgresion

SpecSemestres == InitSemestres /\ [][NextProgresion]_vars

\* the courses of one semester, as <<credits, evaluations>>
Pasado(creditos) == <<creditos, <<Cal(Num(9000), Num(5000)), Cal(Num(8000), Num(5000))>> >>

Perdido(creditos) == <<creditos, <<Cal(Num(4000), Num(10000))>> >>

SinEvaluar(creditos) == <<creditos, <<>> >>

\* 12 credits all passed; 9 credits all passed; 3 of 4 passed and one
\* failed; one pending course; one failed course
CargasSemestre ==
    { <<Pasado(4), Pasado(4), Pasado(4)>>,
      <<Pasado(3), Pasado(3), Pasado(3)>>,
      <<Pasado(4), Pasado(4), Pasado(4), Perdido(4)>>,
      <<SinEvaluar(3)>>,
      <<Perdido(4)>> }

\* the rows of the semesters s[1], s[2], ... in the order of findAll
\* (id_semestre ASC), numbered from `desde`
RECURSIVE InscripcionesDe(_, _, _)
InscripcionesDe(s, t, desde) ==
    IF t > Len(s) THEN <<>>
    ELSE [i \in 1..Len(s[t]) |->
             Inscripcion(desde + i, Termino(t), s[t][i][1], s[t][i][2])]
         \o InscripcionesDe(s, t + 1, desde + Len(s[t]))

InscripcionesPorSemestre ==
    { InscripcionesDe(s, 1, 0) : s \in SeqHasta(CargasSemestre, MaxSemestres) }

InitProgresion ==
    /\ errorBinario \in {-1, 1}
    /\ SinPeticiones
    /\ SinServicio
    /\ SinNota
    /\ inscripciones \in InscripcionesPorSemestre
    /\ SinEstadisticas
    /\ cursosPorSemestre = <<>>
    /\ validacionProgresion = Pendiente
    /\ pcProg = "inicio"

SpecProgresion == InitProgresion /\ [][NextProgresion]_vars

-----------------------------------------------------------------------------
(* Repeated calls of the aggregation functions (SpecPureza).  The functions *)
(* are static methods of classes without fields; their locals (grupos,     *)
(* alertas, observaciones, recomendaciones, the sums) are created in each   *)
(* call.                                                                     *)

MaxLlamadas == 3

\* the argument object after the call: none of the functions assigns to its
\* parameter or to a property of it; filter, map, reduce and Object.values
\* build new arrays, and sort is applied to the array Object.values returned
ArgumentoAlVolver(f, entrada) == entrada

\* three lists of enrollments: none; a passed course; a failed course of the
\* second term followed by two courses of the first, one of them ungraded
ListasDeInscripciones ==
    { <<>>,
      <<Inscripcion(1, Termino(2), 4, Pasado(4)[2])>>,
      <<Inscripcion(1, Termino(2), 4, Perdido(4)[2]),
        Inscripcion(2, Termino(1), 3, SinEvaluar(3)[2]),
        Inscripcion(3, Termino(1), 3, Pasado(3)[2])>> }

\* the arguments each function is called with
Entradas(f) ==
    CASE f \in {"CalificacionService._calcularNotaFinal",
                "ValidacionService._calcularNotaFinal"} ->
             {SinArreglo, Arreglo(<<>>),
              Arreglo(<<Cal(Num(0), Num(2000)), Cal(Num(6099), Num(2000))>>)}
      [] f \in {"CalificacionService._determinarEstadoAprobacion",
                "ValidacionService._determinarEstadoAprobacion"} ->
             {Null, Num(6099), Num(6100)}
      [] f = "CalificacionService._calcularEstadisticasGenerales" ->
             {ProcesarInscripciones(l) : l \in ListasDeInscripciones}
      [] f \in {"ValidacionService._calcularEstadisticasGenerales",
                "ValidacionService._agruparCursosPorSemestre"} ->
             ListasDeInscripciones
      [] f = "ValidacionService._validarProgresionAcademica" ->
             {_agruparCursosPorSemestre(l) : l \in ListasDeInscripciones}
      [] f = "ValidacionService._generarRecomendaciones" ->
             {<<Alertas(_agruparCursosPorSemestre(l)),
                Len(SelectSeq(_agruparCursosPorSemestre(l), TieneReprobados))>> :
                  l \in ListasDeInscripciones}

\* the value the function returns
Aplicar(f, entrada) ==
    CASE f = "CalificacionService._calcularNotaFinal" ->
             CalificacionService_calcularNotaFinal(entrada)
      [] f = "ValidacionService._calcularNotaFinal" ->
             ValidacionService_calcularNotaFinal(entrada)
      [] f = "CalificacionService._determinarEstadoAprobacion" ->
             CalificacionService_determinarEstadoAprobacion(entrada)
      [] f = "ValidacionService._determinarEstadoAprobacion" ->
             ValidacionService_determinarEstadoAprobacion(entrada)
      [] f = "CalificacionService._calcularEstadisticasGenerales" ->
             CalificacionService_calcularEstadisticasGenerales(entrada)
      [] f = "ValidacionService._calcularEstadisticasGenerales" ->
             ValidacionService_calcularEstadisticasGenerales(entrada)
      [] f = "ValidacionService._agruparCursosPorSemestre" ->
             _agruparCursosPorSemestre(entrada)
      [] f = "ValidacionService._validarProgresionAcademica" ->
             _validarProgresionAcademica(entrada)
      [] f = "ValidacionService._generarRecomendaciones" ->
             _generarRecomendaciones(entrada[1], entrada[2])

RECURSIVE CuentaLlamadas(_)
CuentaLlamadas(F) ==
    IF F = {} THEN 0
    ELSE LET f == CHOOSE g \in F : TRUE
         IN  Cardinality(historial[f]) + CuentaLlamadas(F \ {f})

InitPureza ==
    /\ errorBinario \in {-1, 1}
    /\ SinPeticiones
    /\ SinNota
    /\ inscripciones = <<>>
    /\ SinEstadisticas
    /\ SinProgresion
    /\ SinServicio

\* one call of an aggregation function, noted in historial
Invocar ==
    /\ CuentaLlamadas(Funciones) < MaxLlamadas
    /\ \E f \in Funciones :
           \E entrada \in Entradas(f) :
               historial' =
                   [historial EXCEPT ![f] =
                       @ \cup {[entrada |-> entrada,
                                despues |-> ArgumentoAlVolver(f, entrada),
                                salida |-> Aplicar(f, entrada)]}]
    /\ UNCHANGED <<errorBinario, varsNota, inscripciones, varsEst, varsProg,
                   bd, llamada, pc, semestreLeido, consultas, calculos, resultado,
                   varsPeticiones>>

NextPureza == Invocar

SpecPureza == InitPureza /\ [][NextPureza]_vars

-----------------------------------------------------------------------------
(* Claims on the semester statistics (SpecEstadisticas) *)

\* positions of the enrollments whose final grade is a number
Calificados == {i \in 1..Len(cursos) : cursos[i].notaFinal.k = "num"}

\* C6: totalCursos is the number of enrollments, cursosCalificados the number
\* with a final grade, cursosAprobados and cursosReprobados the graded ones
\* at or above 61 and below 61, so that
\* cursosAprobados + cursosReprobados = cursosCalificados <= totalCursos.
C6_Conteos ==
    pcEst = "calculadas" =>
        /\ estadisticas.totalCursos = Len(inscripciones)
        /\ estadisticas.cursosCalificados = Cardinality(Calificados)
        /\ estadisticas.cursosAprobados =
               Cardinality({i \in Calificados : cursos[i].notaFinal.v >= 6100})
        /\ estadisticas.cursosReprobados =
               Cardinality({i \in Calificados : cursos[i].notaFinal.v < 6100})
        /\ estadisticas.cursosAprobados + estadisticas.cursosReprobados
               = estadisticas.cursosCalificados
        /\ estadisticas.cursosCalificados <= estadisticas.totalCursos

\* course A, 4 credits, 90 and 80 at 50 % each; course B, 3 credits, no
\* evaluations
C6_Witness ==
    /\ pcEst = "calculadas"
    /\ Len(inscripciones) = 2
    /\ inscripciones[1].curso.creditos = 4
    /\ inscripciones[1].calificaciones.items =
           <<Cal(Num(9000), Num(5000)), Cal(Num(8000), Num(5000))>>
    /\ inscripciones[2].curso.creditos = 3
    /\ inscripciones[2].calificaciones.items = <<>>
    /\ estadisticas.totalCursos = 2
    /\ estadisticas.cursosCalificados = 1
    /\ estadisticas.cursosAprobados = 1
    /\ estadisticas.cursosReprobados = 0

\* sum of final grade times credits, and of credits, over the graded courses
SumaDeNotasPorCreditos ==
    SumaEn([i \in 1..Len(cursos) |-> cursos[i].notaFinal.v * cursos[i].curso.creditos],
           Calificados)

CreditosCalificados ==
    SumaEn([i \in 1..Len(cursos) |-> cursos[i].curso.creditos], Calificados)

\* p is the quotient n / d rounded to the nearest integer
Cercano(p, n, d) == 2 * p * d - d <= 2 * n /\ 2 * n <= 2 * p * d + d

\* C15: in both statistics functions promedioGeneral is null exactly when
\* no enrollment has a final grade; otherwise, also when every graded course
\* has the final grade 0, it is the number sum(grade * credits) /
\* sum(credits) over the graded enrollments rounded to 2 decimals.
C15_PromedioGeneral ==
    pcEst = "calculadas" =>
        IF Calificados = {}
        THEN estadisticas.promedioGeneral = Null /\ estadisticasGenerales.promedioGeneral = Null
        ELSE /\ estadisticas.promedioGeneral.k = "num"
             /\ Cercano(estadisticas.promedioGeneral.v,
                        SumaDeNotasPorCreditos, CreditosCalificados)
             /\ estadisticasGenerales.promedioGeneral.k = "num"
             /\ Cercano(estadisticasGenerales.promedioGeneral.v,
                        SumaDeNotasPorCreditos, CreditosCalificados)

\* positions of the enrollments whose final grade is 61 or more
Aprobados == {i \in Calificados : cursos[i].notaFinal.v >= NotaMinima * Escala}

CreditosDe(I) == SumaEn([i \in 1..Len(inscripciones) |-> inscripciones[i].curso.creditos], I)

\* C16: in both statistics functions creditosTotales is the sum of the
\* credits of all the enrollments, ungraded ones included, and
\* creditosAprobados the sum over the passed enrollments only, so that
\* 0 <= creditosAprobados <= creditosTotales; also when no course is graded.
C16_Creditos ==
    pcEst = "calculadas" =>
        /\ estadisticas.creditosTotales = CreditosDe(1..Len(inscripciones))
        /\ estadisticasGenerales.creditosTotales = CreditosDe(1..Len(inscripciones))
        /\ estadisticas.creditosAprobados = CreditosDe(Aprobados)
        /\ estadisticasGenerales.creditosAprobados = CreditosDe(Aprobados)
        /\ 0 <= estadisticas.creditosAprobados
        /\ estadisticas.creditosAprobados <= estadisticas.creditosTotales
        /\ 0 <= estadisticasGenerales.creditosAprobados
        /\ estadisticasGenerales.creditosAprobados <= estadisticasGenerales.creditosTotales

\* a passed 4-credit course, a failed 4-credit course and a 3-credit course
\* without evaluations: 11 credits, 4 of them passed
C16_Witness ==
    /\ pcEst = "calculadas"
    /\ Len(inscripciones) = 3
    /\ Cardinality(Calificados) = 2
    /\ Cardinality(Aprobados) = 1
    /\ estadisticas.creditosTotales = 11
    /\ estadisticas.creditosAprobados = 4
    /\ estadisticasGenerales.creditosTotales = 11
    /\ estadisticasGenerales.creditosAprobados = 4

-----------------------------------------------------------------------------
(* Claims on the semester aggregator (SpecSemestres) *)

Agrupados == pcProg \in {"agrupados", "validada"}

TerminoDe(inscripcion) ==
    <<inscripcion.semestre.anio, inscripcion.semestre.numero_semestre>>

TerminoDelGrupo(grupo) == <<grupo.semestre.anio, grupo.semestre.numero>>

\* the places <<g, k>> of the output that hold the enrollment with this id
Lugares(id) ==
    {p \in {<<g, k>> : g \in 1..Len(cursosPorSemestre), k \in 1..MaxInscripciones + 1} :
        /\ p[2] <= Len(cursosPorSemestre[p[1]].cursos)
        /\ cursosPorSemestre[p[1]].cursos[p[2]].inscripcionId = id}

\* C7: in any input order there is one group per distinct (year, number) of
\* the input, every enrollment is in exactly one group, that of its own term,
\* no group is empty, and the groups ascend strictly by year, then number.
C7_Grupos ==
    Agrupados =>
        /\ Len(cursosPorSemestre)
               = Cardinality({TerminoDe(inscripciones[i]) : i \in 1..Len(inscripciones)})
        /\ \A i \in 1..Len(inscripciones) :
               /\ Cardinality(Lugares(inscripciones[i].id)) = 1
               /\ \A p \in Lugares(inscripciones[i].id) :
                      TerminoDelGrupo(cursosPorSemestre[p[1]]) = TerminoDe(inscripciones[i])
        /\ \A g \in 1..Len(cursosPorSemestre) : Len(cursosPorSemestre[g].cursos) > 0
        /\ SumaEn([g \in 1..Len(cursosPorSemestre) |-> Len(cursosPorSemestre[g].cursos)],
                  1..Len(cursosPorSemestre)) = Len(inscripciones)
        /\ \A g, h \in 1..Len(cursosPorSemestre) :
               g < h =>
                   \/ cursosPorSemestre[g].semestre.anio < cursosPorSemestre[h].semestre.anio
                   \/ /\ cursosPorSemestre[g].semestre.anio = cursosPorSemestre[h].semestre.anio
                      /\ cursosPorSemestre[g].semestre.numero
                             < cursosPorSemestre[h].semestre.numero

\* input 2024-2, 2023-2, 2024-1, 2024-2: three groups, the last of two courses
C7_Witness ==
    /\ Agrupados
    /\ Len(inscripciones) = 4
    /\ TerminoDe(inscripciones[1]) = <<2024, 2>>
    /\ TerminoDe(inscripciones[2]) = <<2023, 2>>
    /\ TerminoDe(inscripciones[3]) = <<2024, 1>>
    /\ TerminoDe(inscripciones[4]) = <<2024, 2>>
    /\ Len(cursosPorSemestre) = 3
    /\ TerminoDelGrupo(cursosPorSemestre[1]) = <<2023, 2>>
    /\ TerminoDelGrupo(cursosPorSemestre[2]) = <<2024, 1>>
    /\ TerminoDelGrupo(cursosPorSemestre[3]) = <<2024, 2>>
    /\ Len(cursosPorSemestre[3].cursos) = 2

-----------------------------------------------------------------------------
(* Claims on the progression evaluator (SpecProgresion) *)

Validada == pcProg = "validada"

NumAlertas == Len(validacionProgresion.alertas)

AlertasDelSemestre(g) ==
    {a \in 1..NumAlertas :
        validacionProgresion.alertas[a].semestre = cursosPorSemestre[g].semestre.descripcion}

\* C8: the tier depends on the number of alerts only: none gives EXCELENTE,
\* 1 or 2 BUENA, 3 or 4 REGULAR, 5 or more DEFICIENTE.
C8_Nivel ==
    Validada =>
        /\ NumAlertas = 0 => validacionProgresion.nivel = "EXCELENTE"
        /\ NumAlertas \in {1, 2} => validacionProgresion.nivel = "BUENA"
        /\ NumAlertas \in {3, 4} => validacionProgresion.nivel = "REGULAR"
        /\ NumAlertas >= 5 => validacionProgresion.nivel = "DEFICIENTE"

\* five semesters with one alert each
C8_Witness ==
    /\ Validada
    /\ Len(cursosPorSemestre) = 5
    /\ \A g \in 1..5 : Cardinality(AlertasDelSemestre(g)) = 1
    /\ NumAlertas = 5
    /\ validacionProgresion.nivel = "DEFICIENTE"

\* one semester, under 12 credits, no course with a final grade below 61
UnSemestreLivianoSinReprobados ==
    /\ Validada
    /\ Len(cursosPorSemestre) = 1
    /\ SumaEn([i \in 1..Len(inscripciones) |-> inscripciones[i].curso.creditos],
              1..Len(inscripciones)) < 12
    /\ \A k \in 1..Len(cursosPorSemestre[1].cursos) :
           LET nota == cursosPorSemestre[1].cursos[k].notaFinal
           IN  nota.k = "num" => nota.v >= 6100

AprobadosDelSemestre ==
    Cardinality({k \in 1..Len(cursosPorSemestre[1].cursos) :
                    LET nota == cursosPorSemestre[1].cursos[k].notaFinal
                    IN  nota.k = "num" /\ nota.v >= 6100})

\* C9 as stated: such a semester gives exactly one alert, the low-load one,
\* the tier BUENA and requiereAtencion false.
C9_UnaSolaAlerta ==
    UnSemestreLivianoSinReprobados =>
        /\ NumAlertas = 1
        /\ validacionProgresion.alertas[1].texto = "Carga academica baja"
        /\ validacionProgresion.nivel = "BUENA"
        /\ validacionProgresion.requiereAtencion = FALSE

\* C9 amended: such a semester gives the low-load alert and, exactly when
\* fewer than 75 % of its courses are passed, the low-approval alert as well
\* (one alert or two); the tier is BUENA and requiereAtencion is false.
C9_CargaBajaSinReprobados ==
    UnSemestreLivianoSinReprobados =>
        LET total == Len(cursosPorSemestre[1].cursos)
            pocos == AprobadosDelSemestre * 100 < 75 * total
        IN  /\ validacionProgresion.alertas[1].texto = "Carga academica baja"
            /\ NumAlertas = IF pocos THEN 2 ELSE 1
            /\ pocos =>
                   validacionProgresion.alertas[2].texto = "Bajo porcentaje de aprobacion"
            /\ validacionProgresion.nivel = "BUENA"
            /\ validacionProgresion.requiereAtencion = FALSE

\* 9 credits, three courses, all passed: one alert
C9_Witness ==
    /\ UnSemestreLivianoSinReprobados
    /\ Len(inscripciones) = 3
    /\ AprobadosDelSemestre = 3
    /\ NumAlertas = 1
    /\ validacionProgresion.alertas[1].valor = 9
    /\ validacionProgresion.nivel = "BUENA"

\* the alerts of one kind that name the semester of group g
AlertasDe(g, texto) ==
    {a \in AlertasDelSemestre(g) : validacionProgresion.alertas[a].texto = texto}

AlertasDeTipo(texto) ==
    {a \in 1..NumAlertas : validacionProgresion.alertas[a].texto = texto}

CursosDe(g) == cursosPorSemestre[g].cursos

CreditosDelSemestre(g) ==
    SumaEn([k \in 1..Len(CursosDe(g)) |-> CursosDe(g)[k].curso.creditos],
           1..Len(CursosDe(g)))

\* the courses of group g with a final grade of 61 or more, and below 61
AprobadosDe(g) ==
    {k \in 1..Len(CursosDe(g)) :
        CursosDe(g)[k].notaFinal.k = "num" /\ CursosDe(g)[k].notaFinal.v >= 6100}

ReprobadosDe(g) ==
    {k \in 1..Len(CursosDe(g)) :
        CursosDe(g)[k].notaFinal.k = "num" /\ CursosDe(g)[k].notaFinal.v < 6100}

\* C17: a semester gets a low-load alert naming it exactly when the credits
\* of all its courses, graded or not, sum to less than 12 (none at exactly
\* 12), and semestresBajoCursos is the number of low-load alerts.
C17_CargaBaja ==
    Validada =>
        /\ \A g \in 1..Len(cursosPorSemestre) :
               /\ Cardinality(AlertasDe(g, "Carga academica baja"))
                      = IF CreditosDelSemestre(g) < 12 THEN 1 ELSE 0
               /\ \A a \in AlertasDe(g, "Carga academica baja") :
                      validacionProgresion.alertas[a].valor = CreditosDelSemestre(g)
        /\ validacionProgresion.semestresBajoCursos
               = Cardinality(AlertasDeTipo("Carga academica baja"))

\* a semester of exactly 12 credits without the alert, then one of 9 with it
C17_Witness ==
    /\ Validada
    /\ Len(cursosPorSemestre) = 2
    /\ CreditosDelSemestre(1) = 12
    /\ AlertasDe(1, "Carga academica baja") = {}
    /\ CreditosDelSemestre(2) = 9
    /\ Cardinality(AlertasDe(2, "Carga academica baja")) = 1
    /\ validacionProgresion.semestresBajoCursos = 1

\* C18: a semester gets a failures alert exactly when it has a course with
\* a final grade below 61; the alert carries that count, ungraded courses
\* are not counted, there is at most one such alert per semester, and
\* semestresConReprobados is the number of semesters with a failed course.
C18_Reprobados ==
    Validada =>
        /\ \A g \in 1..Len(cursosPorSemestre) :
               /\ Cardinality(AlertasDe(g, "curso(s) reprobado(s)"))
                      = IF ReprobadosDe(g) # {} THEN 1 ELSE 0
               /\ \A a \in AlertasDe(g, "curso(s) reprobado(s)") :
                      validacionProgresion.alertas[a].valor = Cardinality(ReprobadosDe(g))
        /\ validacionProgresion.semestresConReprobados
               = Cardinality({g \in 1..Len(cursosPorSemestre) : ReprobadosDe(g) # {}})

\* a semester whose only course is ungraded, without the alert, then one
\* with three passed courses and a failed one, with the alert for 1 course
C18_Witness ==
    /\ Validada
    /\ Len(cursosPorSemestre) = 2
    /\ Len(CursosDe(1)) = 1
    /\ CursosDe(1)[1].notaFinal = Null
    /\ AlertasDe(1, "curso(s) reprobado(s)") = {}
    /\ Len(CursosDe(2)) = 4
    /\ \E a \in AlertasDe(2, "curso(s) reprobado(s)") :
           validacionProgresion.alertas[a].valor = 1
    /\ validacionProgresion.semestresConReprobados = 1

\* C19: a semester with at least one course gets a low-approval alert
\* exactly when passed / total < 0.75, total counting the ungraded courses
\* (none at exactly 75 %); each of the three checks gives at most one alert
\* per semester, so there are at most 3 alerts per semester.
C19_PorcentajeBajo ==
    Validada =>
        /\ \A g \in 1..Len(cursosPorSemestre) :
               /\ Len(CursosDe(g)) > 0 =>
                      Cardinality(AlertasDe(g, "Bajo porcentaje de aprobacion"))
                          = IF 100 * Cardinality(AprobadosDe(g)) < 75 * Len(CursosDe(g))
                            THEN 1 ELSE 0
               /\ \A texto \in {"Carga academica baja", "curso(s) reprobado(s)",
                                 "Bajo porcentaje de aprobacion"} :
                      Cardinality(AlertasDe(g, texto)) <= 1
        /\ NumAlertas <= 3 * Len(cursosPorSemestre)

\* three of four courses passed, exactly 75 %: no low-approval alert; then a
\* semester whose only course is ungraded: 0 of 1, with the alert
C19_Witness ==
    /\ Validada
    /\ Len(cursosPorSemestre) = 2
    /\ Len(CursosDe(1)) = 4
    /\ Cardinality(AprobadosDe(1)) = 3
    /\ AlertasDe(1, "Bajo porcentaje de aprobacion") = {}
    /\ Len(CursosDe(2)) = 1
    /\ CursosDe(2)[1].notaFinal = Null
    /\ Cardinality(AlertasDe(2, "Bajo porcentaje de aprobacion")) = 1

\* C20: requiereAtencion is true exactly when there are more than 2 alerts,
\* that is exactly when the tier is REGULAR or DEFICIENTE, and false exactly
\* when it is EXCELENTE or BUENA.
C20_RequiereAtencion ==
    Validada =>
        /\ validacionProgresion.requiereAtencion = (NumAlertas > 2)
        /\ validacionProgresion.requiereAtencion
               <=> validacionProgresion.nivel \in {"REGULAR", "DEFICIENTE"}
        /\ ~validacionProgresion.requiereAtencion
               <=> validacionProgresion.nivel \in {"EXCELENTE", "BUENA"}

\* three alerts: the tier REGULAR and requiereAtencion true
C20_Witness ==
    /\ Validada
    /\ NumAlertas = 3
    /\ validacionProgresion.nivel = "REGULAR"
    /\ validacionProgresion.requiereAtencion = TRUE

\* the recommendation strings of the report
Recomendaciones == validacionProgresion.recomendaciones

Recomienda(texto) == \E i \in 1..Len(Recomendaciones) : Recomendaciones[i] = texto

\* C21: the two retake/tutoring recommendations are in the list exactly when
\* some semester has a failures alert, the increase-load one exactly when a
\* low-load alert was emitted, the two study-method/psycho-pedagogical ones
\* exactly when a low-approval alert was emitted, the two positive ones
\* exactly when there is no alert at all; the list is never empty.
C21_Recomendaciones ==
    Validada =>
        /\ \A texto \in {"Considerar repetir cursos reprobados en proximas oportunidades",
                         "Solicitar tutoria academica para materias de mayor dificultad"} :
               Recomienda(texto) <=> AlertasDeTipo("curso(s) reprobado(s)") # {}
        /\ Recomienda("Incrementar la carga academica para mantener progresion normal")
               <=> AlertasDeTipo("Carga academica baja") # {}
        /\ \A texto \in {"Revisar metodos de estudio y tecnicas de aprendizaje",
                         "Considerar apoyo psicopedagogico si es necesario"} :
               Recomienda(texto) <=> AlertasDeTipo("Bajo porcentaje de aprobacion") # {}
        /\ \A texto \in {"Mantener el excelente desempeno academico",
                         "Considerar participar en actividades extracurriculares"} :
               Recomienda(texto) <=> NumAlertas = 0
        /\ Len(Recomendaciones) > 0

\* a semester of 9 passed credits and one of 16 credits with a failed
\* course: the load and the retake recommendations without the study-method
\* and the positive ones
C21_Witness ==
    /\ Validada
    /\ Len(cursosPorSemestre) = 2
    /\ AlertasDeTipo("Carga academica baja") # {}
    /\ AlertasDeTipo("curso(s) reprobado(s)") # {}
    /\ AlertasDeTipo("Bajo porcentaje de aprobacion") = {}
    /\ Recomendaciones =
           <<"Considerar repetir cursos reprobados en proximas oportunidades",
             "Solicitar tutoria academica para materias de mayor dificultad",
             "Incrementar la carga academica para mantener progresion normal">>

\* C22: no recommendation string is in the list twice, however many
\* semesters raise alerts of its kind: the list has at most the 5 strings
\* of the three kinds, whatever the number of alerts.
C22_SinRepetidas ==
    Validada =>
        /\ \A i, j \in 1..Len(Recomendaciones) :
               Recomendaciones[i] = Recomendaciones[j] => i = j
        /\ Len(Recomendaciones) <= 5

\* five semesters whose only course is failed: fifteen alerts, five of each
\* kind, and each of the five recommendations once
C22_Witness ==
    /\ Validada
    /\ Len(cursosPorSemestre) = 5
    /\ Cardinality(AlertasDeTipo("curso(s) reprobado(s)")) = 5
    /\ Cardinality(AlertasDeTipo("Bajo porcentaje de aprobacion")) = 5
    /\ Cardinality(AlertasDeTipo("Carga academica baja")) = 5
    /\ Len(Recomendaciones) = 5

-----------------------------------------------------------------------------
(* The performance label of CalificacionesTemplate                         *)
(* (src/universidad_backend/app/templates/calificacion.templates.js).      *)
(* _generarObservaciones prints the label next to promedioGeneral, which   *)
(* _calcularEstadisticasGenerales gives as null or as a number of two      *)
(* decimals between 0 and 100.                                             *)

MaxPromedio == 100

\* promedio >= n in JavaScript: null counts as 0, undefined and NaN compare
\* false
MayorIgualJS(promedio, n) ==
    \/ promedio.k = "num" /\ promedio.v >= n
    \/ promedio.k = "null" /\ 0 >= n

\* the label with the approval limit taken at 60
NivelRendimientoDesdeSesenta(promedio) ==
    IF MayorIgualJS(promedio, 90 * Escala) THEN "Excelente"
    ELSE IF MayorIgualJS(promedio, 80 * Escala) THEN "Muy Bueno"
    ELSE IF MayorIgualJS(promedio, 70 * Escala) THEN "Bueno"
    ELSE IF MayorIgualJS(promedio, 60 * Escala) THEN "Satisfactorio"
    ELSE "Insatisfactorio"

_determinarNivelRendimiento(promedio) ==
    IF MayorIgualJS(promedio, 90 * Escala) THEN "Excelente"
    ELSE IF MayorIgualJS(promedio, 80 * Escala) THEN "Muy Bueno"
    ELSE IF MayorIgualJS(promedio, 70 * Escala) THEN "Bueno"
    ELSE IF MayorIgualJS(promedio, NotaMinima * Escala) THEN "Satisfactorio"
    ELSE "Insatisfactorio"

\* the values of estadisticas.promedioGeneral
Promedios == {Null} \cup {Num(x) : x \in 0..(MaxPromedio * Escala)}

InitPlantilla ==
    /\ errorBinario \in {-1, 1}
    /\ SinServicio
    /\ SinNota
    /\ inscripciones = <<>>
    /\ SinEstadisticas
    /\ SinProgresion
    /\ datos \in {[estadisticas |-> [promedioGeneral |-> x]] : x \in Promedios}
    /\ nivelRendimiento = ""
    /\ pcPlantilla = "inicio"
    /\ SinOrden
    /\ SinControlador
    /\ SinConcurrencia

\* the observation on the average of _generarObservaciones: the label is
\* asked for when promedioGeneral !== null
GenerarObservaciones ==
    /\ pcPlantilla = "inicio"
    /\ nivelRendimiento' =
           IF datos.estadisticas.promedioGeneral # Null
           THEN _determinarNivelRendimiento(datos.estadisticas.promedioGeneral)
           ELSE nivelRendimiento
    /\ pcPlantilla' = "observado"
    /\ UNCHANGED <<errorBinario, varsNota, inscripciones, varsEst, varsProg,
                   varsServicio, datos, varsOrden, varsControlador,
                   varsConcurrencia>>

NextPlantilla == GenerarObservaciones

SpecPlantilla == InitPlantilla /\ [][NextPlantilla]_vars

Observado == pcPlantilla = "observado"

Promedio == datos.estadisticas.promedioGeneral

\* C23: every average gets exactly one label: Excelente from 90, Muy Bueno
\* from 80, Bueno from 70, Satisfactorio from 61, Insatisfactorio below; and
\* the label is Insatisfactorio exactly for the averages that
\* _determinarEstadoAprobacion classifies as REPROBADO.  An absent average
\* (null) is given no label.
C23_NivelRendimiento ==
    Observado =>
      IF Promedio = Null THEN nivelRendimiento = ""
      ELSE
        /\ nivelRendimiento =
               (IF Promedio.v >= 9000 THEN "Excelente"
                ELSE IF Promedio.v >= 8000 THEN "Muy Bueno"
                ELSE IF Promedio.v >= 7000 THEN "Bueno"
                ELSE IF Promedio.v >= 6100 THEN "Satisfactorio"
                ELSE "Insatisfactorio")
        /\ nivelRendimiento = "Insatisfactorio"
               <=> CalificacionService_determinarEstadoAprobacion(Promedio).codigo
                       = "REPROBADO"
        /\ nivelRendimiento = "Insatisfactorio"
               <=> ValidacionService_determinarEstadoAprobacion(Promedio).codigo
                       = "REPROBADO"

\* an average of exactly 61: Satisfactorio, and APROBADO for the classifier
C23_Witness ==
    /\ Observado
    /\ Promedio = Num(6100)
    /\ nivelRendimiento = "Satisfactorio"
    /\ CalificacionService_determinarEstadoAprobacion(Promedio).codigo = "APROBADO"

-----------------------------------------------------------------------------
(* The calculator on the same evaluations in two orders (SpecOrden).  The  *)
(* forEach adds the terms in the order of the array, and the double sum of *)
(* three or more terms depends on that order in its last bit; 0 + a + b    *)
(* and 0 + b + a are the same double.                                      *)

\* two partial exams of 25 % and a final exam of 50 %, and an evaluation
\* not yet scored
CalificacionesEnOrden ==
    {[nota |-> Num(3714), ponderacion |-> Num(2500)],
     [nota |-> Num(6564), ponderacion |-> Num(2500)],
     [nota |-> Num(7060), ponderacion |-> Num(5000)],
     [nota |-> Null, ponderacion |-> Num(2500)]}

\* the orders of the elements of s
Permutaciones(s) ==
    LET n == Len(s)
        biyecciones == {f \in [1..n -> 1..n] : \A i, j \in 1..n : f[i] = f[j] => i = j}
    IN  {[i \in 1..n |-> s[f[i]]] : f \in biyecciones}

\* the evaluations the forEach adds, in its order
Sumadas(items) == SelectSeq(items, ConNotaVS)

\* the two arrays are added in the same order up to the exchange of the
\* first two terms
MismoOrdenDeSuma(a, b) ==
    LET x == Sumadas(a)
        y == Sumadas(b)
    IN  \/ x = y
        \/ /\ Len(x) >= 2
           /\ y = <<x[2], x[1]>> \o SubSeq(x, 3, Len(x))

InitOrden ==
    /\ errorBinario \in {-1, 1}
    /\ SinServicio
    /\ calificaciones \in {Arreglo(s) : s \in SeqHasta(CalificacionesEnOrden, MaxCals)}
    /\ notaCS = Pendiente
    /\ notaVS = Pendiente
    /\ estadoCS = EstadoPendiente
    /\ estadoVS = EstadoPendiente
    /\ pcNota = "inicio"
    /\ inscripciones = <<>>
    /\ SinEstadisticas
    /\ SinProgresion
    /\ SinPeticiones

\* _calcularNotaFinal called on the same evaluations in another order
CalcularReordenadas ==
    /\ pcNota = "calculada"
    /\ \E otras \in Permutaciones(calificaciones.items) :
           /\ reordenadas' = Arreglo(otras)
           /\ errorBinario' \in
                  IF MismoOrdenDeSuma(calificaciones.items, otras)
                  THEN {errorBinario}
                  ELSE {-1, 1}
    /\ notaReordenadaCS' = CalificacionService_calcularNotaFinal(reordenadas)'
    /\ notaReordenadaVS' = ValidacionService_calcularNotaFinal(reordenadas)'
    /\ pcNota' = "reordenada"
    /\ UNCHANGED <<calificaciones, notaCS, notaVS, estadoCS, estadoVS>>
    /\ UNCHANGED <<inscripciones, varsEst, varsProg, varsServicio, varsPlantilla,
                   varsControlador, varsConcurrencia>>

NextOrden == CalcularNota \/ CalcularReordenadas

SpecOrden == InitOrden /\ [][NextOrden]_vars

\* C24: the grade of an evaluation list and the grade of any permutation of
\* it are the same, absent or the same number, in both copies.
C24_OrdenIrrelevante ==
    pcNota = "reordenada" =>
        /\ notaReordenadaCS = notaCS
        /\ notaReordenadaVS = notaVS

-----------------------------------------------------------------------------
(* The service calls: obtenerCalificacionesPorSemestre of                  *)
(* CalificacionService and obtenerValidacionCompleta of ValidacionService. *)
(* A call runs from one await to the next in one step; the rows the        *)
(* lookups read are in bd.  Names and dates of the rows, and               *)
(* fechaGeneracion, are left out of the result.                            *)

\* an integer argument of a call
Entero(n) == [k |-> "num", v |-> n]

\* !x
Falsy(x) == x.k \in {"undefined", "null", "nan"} \/ (x.k = "num" /\ x.v = 0)

\* a catch block that answers with a message of its own
CapturarSinMensaje(mensaje) ==
    Retorno([success |-> FALSE, mensaje |-> "Error interno", error |-> "Error interno"])

\* throw new Error(mensaje) inside the try, and the catch block:
\* return { success: false, mensaje: error.message, error: error.message }
Capturar(mensaje) ==
    Retorno([success |-> FALSE, mensaje |-> mensaje, error |-> mensaje])

\* steps 1 of obtenerCalificacionesPorSemestre with the check of the
\* semester number left out
ErrorDeParametrosSinRango(idEstudiante, anio, numeroSemestre) ==
    IF Falsy(idEstudiante) \/ Falsy(anio) \/ Falsy(numeroSemestre)
    THEN "Parametros requeridos: idEstudiante, anio, numeroSemestre"
    ELSE ""

\* step 1 of obtenerCalificacionesPorSemestre: the message of the Error
\* thrown, "" when none is
ErrorDeParametros(idEstudiante, anio, numeroSemestre) ==
    IF Falsy(idEstudiante) \/ Falsy(anio) \/ Falsy(numeroSemestre)
    THEN "Parametros requeridos: idEstudiante, anio, numeroSemestre"
    ELSE IF ~(numeroSemestre.k = "num" /\ numeroSemestre.v \in {1, 2})
    THEN "Numero de semestre debe ser 1 o 2"
    ELSE ""

\* step 1 of obtenerValidacionCompleta
ErrorDeIdEstudiante(idEstudiante) ==
    IF Falsy(idEstudiante) THEN "ID de estudiante requerido" ELSE ""

\* Semestre.findOne({ where: { anio, numero_semestre } }): the rows matching
SemestresCon(anio, numeroSemestre) ==
    {s \in bd.semestres : s.anio = anio.v /\ s.numero_semestre = numeroSemestre.v}

\* Estudiante.findByPk(idEstudiante)
ExisteEstudiante(idEstudiante) == idEstudiante.v \in bd.estudiantes

\* Inscripcion.findAll({ where: { id_estudiante, id_semestre }, order: id ASC });
\* bd.inscripciones is held in the order of id
InscripcionesDelSemestre(idEstudiante, idSemestre) ==
    SelectSeq(bd.inscripciones,
              LAMBDA i : i.id_estudiante = idEstudiante.v /\ i.semestre.id = idSemestre)

\* order: id_semestre ASC, then the course code ASC (the course id stands
\* for its code)
InsertarFila(ordenadas, x) ==
    LET menores == {i \in 1..Len(ordenadas) :
                       \/ ordenadas[i].semestre.id < x.semestre.id
                       \/ /\ ordenadas[i].semestre.id = x.semestre.id
                          /\ ordenadas[i].curso.id <= x.curso.id}
        k == Cardinality(menores)
    IN  SubSeq(ordenadas, 1, k) \o <<x>> \o SubSeq(ordenadas, k + 1, Len(ordenadas))

RECURSIVE OrdenarFilas(_)
OrdenarFilas(filas) ==
    IF filas = <<>> THEN <<>>
    ELSE InsertarFila(OrdenarFilas(SubSeq(filas, 1, Len(filas) - 1)), filas[Len(filas)])

\* Inscripcion.findAll({ where: { id_estudiante }, order: ... })
InscripcionesDelEstudiante(idEstudiante) ==
    OrdenarFilas(SelectSeq(bd.inscripciones,
                           LAMBDA i : i.id_estudiante = idEstudiante.v))

\* steps 5 to 7 of obtenerCalificacionesPorSemestre and its return
RespuestaCalificaciones(idEstudiante, semestre_, inscripciones_) ==
    LET cursosConCalificaciones == ProcesarInscripciones(inscripciones_)
    IN  Retorno(
            [success |-> TRUE,
             data |-> [estudiante |-> [id |-> idEstudiante.v],
                       semestre |-> [id |-> semestre_.id,
                                     anio |-> semestre_.anio,
                                     numero |-> semestre_.numero_semestre,
                                     descripcion |-> Descripcion(semestre_)],
                       cursos |-> cursosConCalificaciones,
                       estadisticas |->
                           CalificacionService_calcularEstadisticasGenerales(
                               cursosConCalificaciones)],
             mensaje |-> "Calificaciones obtenidas para "
                             \o ToString(Len(cursosConCalificaciones)) \o " cursos"])

\* steps 4 to 7 of obtenerValidacionCompleta and its return
RespuestaValidacion(idEstudiante, inscripciones_) ==
    LET porSemestre == _agruparCursosPorSemestre(inscripciones_)
    IN  Retorno(
            [success |-> TRUE,
             data |-> [estudiante |-> [id |-> idEstudiante.v],
                       cursosPorSemestre |-> porSemestre,
                       estadisticasGenerales |->
                           ValidacionService_calcularEstadisticasGenerales(inscripciones_),
                       validacionProgresion |-> _validarProgresionAcademica(porSemestre)],
             mensaje |-> "Validacion completa para "
                             \o ToString(Len(inscripciones_)) \o " inscripciones"])

MaxFilas == 2

\* the message of a lookup that rejects
ErrorDeConsulta == "connect ECONNREFUSED"

\* the two terms stored; their ids are not in the order of time
SemestresGuardados == {Semestre(2, 2024, 1), Semestre(1, 2024, 2)}

\* student 1 and student 3 exist, student 2 does not
EstudiantesGuardados == {1, 3}

\* a passed 4-credit course, a 3-credit course without evaluations and a
\* 4-credit course whose only scored evaluation weighs 0
CursosGuardados ==
    { <<4, <<Cal(Num(9000), Num(5000)), Cal(Num(8000), Num(5000))>> >>,
      <<3, <<>> >>,
      <<4, <<Cal(Num(5000), Num(0)), Cal(Null, Num(5000))>> >> }

\* student 1 in both terms, student 3 in the first
MatriculasGuardadas ==
    { <<1, Semestre(2, 2024, 1)>>, <<1, Semestre(1, 2024, 2)>>, <<3, Semestre(2, 2024, 1)>> }

Fila(id, estudianteYSemestre, curso) ==
    [id |-> id,
     id_estudiante |-> estudianteYSemestre[1],
     semestre |-> estudianteYSemestre[2],
     curso |-> [id |-> id, creditos |-> curso[1]],
     calificaciones |-> Arreglo(curso[2]),
     estado |-> "ACTIVO"]

FilasGuardadas ==
    { [i \in 1..Len(s) |-> Fila(i, s[i][1], s[i][2])] :
          s \in SeqHasta(MatriculasGuardadas \X CursosGuardados, MaxFilas) }

ArgumentosId == {Undefined, Entero(1), Entero(2)}

ArgumentosAnio == {Undefined, Entero(2024), Entero(2030)}

ArgumentosNumero == {Undefined, Entero(1), Entero(2), Entero(3)}

Init ==
    /\ errorBinario \in {-1, 1}
    /\ SinPeticiones
    /\ SinNota
    /\ inscripciones = <<>>
    /\ SinEstadisticas
    /\ SinProgresion
    /\ bd \in [semestres : {SemestresGuardados},
               estudiantes : {EstudiantesGuardados},
               inscripciones : FilasGuardadas]
    /\ llamada = [servicio |-> "", desde |-> "", idEstudiante |-> Undefined,
                  anio |-> Undefined, numeroSemestre |-> Undefined]
    /\ pc = "libre"
    /\ semestreLeido = SinSemestre
    /\ consultas = <<>>
    /\ calculos = 0
    /\ resultado = EnCurso
    /\ SinHistorial

Consulta(nombre, rechazada) == [consulta |-> nombre, rechazada |-> rechazada]

\* a direct call, or the call validarCalificacionesExistentes makes
Llamadores == {"", "validarCalificacionesExistentes"}

\* where the return of obtenerCalificacionesPorSemestre goes
Fin(desde) == IF desde = "" THEN "fin" ELSE "validar"

Puras ==
    <<errorBinario, varsNota, inscripciones, varsEst, varsProg, historial,
      varsPeticiones>>

\* obtenerCalificacionesPorSemestre(idEstudiante, anio, numeroSemestre) up to
\* its first await, called directly or by validarCalificacionesExistentes
LlamarCalificaciones ==
    /\ pc = "libre"
    /\ \E id \in ArgumentosId, anio \in ArgumentosAnio, num \in ArgumentosNumero,
          desde \in Llamadores :
           /\ llamada' = [servicio |-> "calificaciones", desde |-> desde,
                          idEstudiante |-> id, anio |-> anio, numeroSemestre |-> num]
           /\ IF ErrorDeParametros(id, anio, num) # ""
              THEN /\ resultado' = Capturar(ErrorDeParametros(id, anio, num))
                   /\ pc' = Fin(desde)
                   /\ UNCHANGED consultas
              ELSE /\ pc' = "semestre"
                   /\ UNCHANGED <<resultado, consultas>>
    /\ UNCHANGED <<bd, semestreLeido, calculos, Puras>>

\* await Semestre.findOne(...) settles; on a row, up to the next await
RecibirSemestre ==
    /\ pc = "semestre"
    /\ \E rechazada \in BOOLEAN :
           /\ consultas' = Append(consultas, Consulta("Semestre.findOne", rechazada))
           /\ IF rechazada
              THEN /\ resultado' = Capturar(ErrorDeConsulta)
                   /\ pc' = Fin(llamada.desde)
                   /\ UNCHANGED semestreLeido
              ELSE IF SemestresCon(llamada.anio, llamada.numeroSemestre) = {}
              THEN /\ resultado' =
                          Capturar("Semestre " \o ToString(llamada.numeroSemestre.v) \o "/"
                                       \o ToString(llamada.anio.v) \o " no encontrado")
                   /\ pc' = Fin(llamada.desde)
                   /\ UNCHANGED semestreLeido
              ELSE /\ semestreLeido' =
                          CHOOSE s \in SemestresCon(llamada.anio, llamada.numeroSemestre) : TRUE
                   /\ pc' = "estudiante"
                   /\ UNCHANGED resultado
    /\ UNCHANGED <<bd, llamada, calculos, Puras>>

\* obtenerValidacionCompleta(idEstudiante) up to its first await
LlamarValidacion ==
    /\ pc = "libre"
    /\ \E id \in ArgumentosId :
           /\ llamada' = [servicio |-> "validacion", desde |-> "", idEstudiante |-> id,
                          anio |-> Undefined, numeroSemestre |-> Undefined]
           /\ IF ErrorDeIdEstudiante(id) # ""
              THEN /\ resultado' = Capturar(ErrorDeIdEstudiante(id))
                   /\ pc' = "fin"
              ELSE /\ pc' = "estudiante"
                   /\ UNCHANGED resultado
    /\ UNCHANGED <<bd, semestreLeido, consultas, calculos, Puras>>

\* await Estudiante.findByPk(idEstudiante) settles (either service)
RecibirEstudiante ==
    /\ pc = "estudiante"
    /\ \E rechazada \in BOOLEAN :
           /\ consultas' = Append(consultas, Consulta("Estudiante.findByPk", rechazada))
           /\ IF rechazada
              THEN /\ resultado' = Capturar(ErrorDeConsulta)
                   /\ pc' = Fin(llamada.desde)
              ELSE IF ~ExisteEstudiante(llamada.idEstudiante)
              THEN /\ resultado' = Capturar("Estudiante no encontrado")
                   /\ pc' = Fin(llamada.desde)
              ELSE /\ pc' = "inscripciones"
                   /\ UNCHANGED resultado
    /\ UNCHANGED <<bd, llamada, semestreLeido, calculos, Puras>>

\* await Inscripcion.findAll(...) settles; the rest of the call
RecibirInscripciones ==
    /\ pc = "inscripciones"
    /\ \E rechazada \in BOOLEAN :
           /\ consultas' = Append(consultas, Consulta("Inscripcion.findAll", rechazada))
           /\ IF rechazada
              THEN /\ resultado' = Capturar(ErrorDeConsulta)
                   /\ UNCHANGED calculos
              ELSE IF llamada.servicio = "calificaciones"
              THEN LET filas == InscripcionesDelSemestre(llamada.idEstudiante, semestreLeido.id)
                   IN  /\ resultado' =
                              RespuestaCalificaciones(llamada.idEstudiante, semestreLeido, filas)
                       /\ calculos' = calculos + Len(filas)
              ELSE LET filas == InscripcionesDelEstudiante(llamada.idEstudiante)
                   IN  /\ resultado' = RespuestaValidacion(llamada.idEstudiante, filas)
                       /\ calculos' = calculos + 2 * Len(filas)
    /\ pc' = Fin(llamada.desde)
    /\ UNCHANGED <<bd, llamada, semestreLeido, Puras>>

\* a course counted when it has a final grade, not when it has evaluation
\* records
ValidarConNotaFinal(r) ==
    IF ~r.success
    THEN [valido |-> FALSE, mensaje |-> r.mensaje]
    ELSE LET cursosConCalificaciones ==
                 SelectSeq(r.data.cursos, LAMBDA curso : curso.notaFinal.k # "null")
             n == Len(cursosConCalificaciones)
         IN  [valido |-> n > 0,
              mensaje |-> IF n > 0
                          THEN ToString(n) \o " cursos con calificaciones encontrados"
                          ELSE "No se encontraron calificaciones para este periodo",
              totalCursos |-> Len(r.data.cursos),
              cursosConCalificaciones |-> n]

\* the rest of validarCalificacionesExistentes once the awaited result r of
\* obtenerCalificacionesPorSemestre is there
ValidarExistentes(r) ==
    IF ~r.success
    THEN [valido |-> FALSE, mensaje |-> r.mensaje]
    ELSE LET cursosConCalificaciones ==
                 SelectSeq(r.data.cursos, LAMBDA curso : Len(curso.calificaciones) > 0)
             n == Len(cursosConCalificaciones)
         IN  [valido |-> n > 0,
              mensaje |-> IF n > 0
                          THEN ToString(n) \o " cursos con calificaciones encontrados"
                          ELSE "No se encontraron calificaciones para este periodo",
              totalCursos |-> Len(r.data.cursos),
              cursosConCalificaciones |-> n]

\* validarCalificacionesExistentes after its await; its catch block answers
\* an awaited promise that rejects
ValidarCalificacionesExistentes ==
    /\ pc = "validar"
    /\ resultado' =
           IF resultado.tipo = "retorno"
           THEN Retorno(ValidarExistentes(resultado.valor))
           ELSE Retorno([valido |-> FALSE,
                         mensaje |-> "Error al validar calificaciones",
                         error |-> resultado.valor.mensaje])
    /\ pc' = "validado"
    /\ UNCHANGED <<bd, llamada, semestreLeido, consultas, calculos, Puras>>

\* the catch block of obtenerSemestresDisponibles
CapturarSemestres(mensaje) ==
    Retorno([success |-> FALSE,
             mensaje |-> "Error al obtener semestres disponibles",
             error |-> mensaje])

\* the terms with an enrollment of the student (include ... required: true)
SemestresDelEstudiante(idEstudiante) ==
    {s \in bd.semestres :
        idEstudiante.k = "num" /\
        \E i \in 1..Len(bd.inscripciones) :
            /\ bd.inscripciones[i].id_estudiante = idEstudiante.v
            /\ bd.inscripciones[i].semestre.id = s.id}

\* order: [['anio', 'DESC'], ['numero_semestre', 'DESC']]
RECURSIVE EnOrdenDescendente(_)
EnOrdenDescendente(S) ==
    IF S = {} THEN <<>>
    ELSE LET m == CHOOSE s \in S :
                      \A r \in S : \/ r.anio < s.anio
                                   \/ r.anio = s.anio /\ r.numero_semestre <= s.numero_semestre
         IN  <<m>> \o EnOrdenDescendente(S \ {m})

\* the return of obtenerSemestresDisponibles
RespuestaSemestres(semestres_) ==
    Retorno([success |-> TRUE,
             data |-> [i \in 1..Len(semestres_) |->
                          [id |-> semestres_[i].id,
                           anio |-> semestres_[i].anio,
                           numero |-> semestres_[i].numero_semestre,
                           descripcion |-> Descripcion(semestres_[i])]],
             mensaje |-> ToString(Len(semestres_)) \o " semestres encontrados"])

\* obtenerSemestresDisponibles(idEstudiante) up to its await
LlamarSemestresDisponibles ==
    /\ pc = "libre"
    /\ \E id \in ArgumentosId :
           llamada' = [servicio |-> "semestres", desde |-> "", idEstudiante |-> id,
                       anio |-> Undefined, numeroSemestre |-> Undefined]
    /\ pc' = "semestres"
    /\ UNCHANGED <<bd, semestreLeido, consultas, calculos, resultado, Puras>>

\* await Semestre.findAll(...) settles; the rest of the call
RecibirSemestres ==
    /\ pc = "semestres"
    /\ \E rechazada \in BOOLEAN :
           /\ consultas' = Append(consultas, Consulta("Semestre.findAll", rechazada))
           /\ resultado' =
                  IF rechazada
                  THEN CapturarSemestres(ErrorDeConsulta)
                  ELSE RespuestaSemestres(
                           EnOrdenDescendente(SemestresDelEstudiante(llamada.idEstudiante)))
    /\ pc' = "fin"
    /\ UNCHANGED <<bd, llamada, semestreLeido, calculos, Puras>>

Next ==
    \/ LlamarCalificaciones
    \/ RecibirSemestre
    \/ LlamarValidacion
    \/ RecibirEstudiante
    \/ RecibirInscripciones
    \/ ValidarCalificacionesExistentes
    \/ LlamarSemestresDisponibles
    \/ RecibirSemestres

Spec == Init /\ [][Next]_vars

-----------------------------------------------------------------------------
(* Claims on the service calls (Spec) *)

Terminada == pc = "fin"

SinRechazo == \A i \in 1..Len(consultas) : ~consultas[i].rechazada

Emitidas == [i \in 1..Len(consultas) |-> consultas[i].consulta]

Presente(x) == x.k = "num" /\ x.v # 0

\* the arguments pass the checks of step 1
ArgumentosBuenos ==
    IF llamada.servicio = "calificaciones"
    THEN /\ Presente(llamada.idEstudiante)
         /\ Presente(llamada.anio)
         /\ Presente(llamada.numeroSemestre)
         /\ llamada.numeroSemestre.v \in {1, 2}
    ELSE IF llamada.servicio = "validacion"
    THEN Presente(llamada.idEstudiante)
    ELSE TRUE

HaySemestre ==
    \E s \in bd.semestres :
        s.anio = llamada.anio.v /\ s.numero_semestre = llamada.numeroSemestre.v

HayEstudiante == llamada.idEstudiante.v \in bd.estudiantes

\* the two calls that look the student up
BuscaEstudiante == llamada.servicio \in {"calificaciones", "validacion"}

\* no evaluations, or scored evaluations whose weights sum to 0
PesoPuntuado(items) ==
    SumaEn([i \in 1..Len(items) |-> items[i].ponderacion.v],
           {i \in 1..Len(items) : items[i].nota.k = "num"})

DatosInsuficientes(items) == Len(items) = 0 \/ PesoPuntuado(items) = 0

FilaDe(id) == CHOOSE i \in 1..Len(bd.inscripciones) : bd.inscripciones[i].id = id

SinCalificarCurso(curso) ==
    DatosInsuficientes(bd.inscripciones[FilaDe(curso.inscripcionId)].calificaciones.items)
        => curso.notaFinal = Null /\ curso.estado.codigo = "SIN_CALIFICAR"

\* C5: an enrollment without evaluations, or whose scored evaluations weigh
\* 0 in total, gets a null final grade (not 0) and the status SIN_CALIFICAR,
\* and the call that meets it still returns success: true.
C5_DatosInsuficientes ==
    (/\ Terminada
     /\ ArgumentosBuenos
     /\ llamada.servicio = "calificaciones" => HaySemestre
     /\ HayEstudiante
     /\ SinRechazo) =>
        /\ resultado.tipo = "retorno"
        /\ resultado.valor.success = TRUE
        /\ llamada.servicio = "calificaciones" =>
               \A k \in 1..Len(resultado.valor.data.cursos) :
                   SinCalificarCurso(resultado.valor.data.cursos[k])
        /\ llamada.servicio = "validacion" =>
               \A g \in 1..Len(resultado.valor.data.cursosPorSemestre) :
                   \A k \in 1..Len(resultado.valor.data.cursosPorSemestre[g].cursos) :
                       SinCalificarCurso(resultado.valor.data.cursosPorSemestre[g].cursos[k])

\* student 1, term 2024-1: a course without evaluations and a course whose
\* scored evaluation weighs 0
C5_Witness ==
    /\ Terminada
    /\ llamada.servicio = "calificaciones"
    /\ resultado.tipo = "retorno"
    /\ resultado.valor.success = TRUE
    /\ Len(resultado.valor.data.cursos) = 2
    /\ resultado.valor.data.cursos[1].calificaciones = <<>>
    /\ resultado.valor.data.cursos[2].calificaciones
           = <<Cal(Num(5000), Num(0)), Cal(Null, Num(5000))>>
    /\ \A k \in 1..2 : resultado.valor.data.cursos[k].notaFinal = Null
    /\ resultado.valor.data.estadisticas.cursosCalificados = 0

Fracasa == resultado.tipo = "retorno" /\ resultado.valor.success = FALSE

\* C10: a missing student id, year or semester number, or a semester number
\* other than 1 and 2, ends the call with success: false before any lookup; a
\* term not found ends it before the student and enrollment lookups; a
\* student not found ends it before the enrollment lookup; no grade is
\* computed in any of these cases, and the call returns: no exception leaves
\* it.
C10_FalloRapido ==
    Terminada =>
        /\ resultado.tipo = "retorno"
        /\ ~ArgumentosBuenos => Fracasa /\ consultas = <<>> /\ calculos = 0
        /\ (ArgumentosBuenos /\ llamada.servicio = "calificaciones" /\ ~HaySemestre) =>
               Fracasa /\ Emitidas = <<"Semestre.findOne">> /\ calculos = 0
        /\ (/\ ArgumentosBuenos
            /\ BuscaEstudiante
            /\ llamada.servicio = "calificaciones" => HaySemestre
            /\ ~HayEstudiante) =>
               /\ Fracasa
               /\ \A i \in 1..Len(Emitidas) : Emitidas[i] # "Inscripcion.findAll"
               /\ calculos = 0

\* the call with semester number 3
C10_Witness ==
    /\ Terminada
    /\ llamada.servicio = "calificaciones"
    /\ llamada.idEstudiante = Entero(1)
    /\ llamada.anio = Entero(2024)
    /\ llamada.numeroSemestre = Entero(3)
    /\ Fracasa
    /\ resultado.valor.mensaje = "Numero de semestre debe ser 1 o 2"
    /\ consultas = <<>>

Acabada == pc \in {"fin", "validado"}

Rechazadas == {i \in 1..Len(consultas) : consultas[i].rechazada}

\* C11: when a lookup of a service call rejects, the call returns a failure
\* (success: false, or valido: false) that carries the message of the
\* rejection unchanged, no lookup follows the rejected one, and no lookup is
\* issued twice in a call.
C11_FalloDeConsulta ==
    /\ \A i, j \in 1..Len(consultas) :
           consultas[i].consulta = consultas[j].consulta => i = j
    /\ \A i \in Rechazadas : i = Len(consultas)
    /\ Rechazadas # {} => pc \in {"fin", "validar", "validado"}
    /\ (Acabada /\ Rechazadas # {}) =>
           /\ resultado.tipo = "retorno"
           /\ IF pc = "validado"
              THEN /\ resultado.valor.valido = FALSE
                   /\ resultado.valor.mensaje = ErrorDeConsulta
              ELSE /\ resultado.valor.success = FALSE
                   /\ resultado.valor.error = ErrorDeConsulta
                   /\ llamada.servicio # "semestres" =>
                          resultado.valor.mensaje = ErrorDeConsulta

\* validarCalificacionesExistentes whose enrollment lookup rejects, after the
\* term and the student were found
C11_Witness ==
    /\ pc = "validado"
    /\ Emitidas = <<"Semestre.findOne", "Estudiante.findByPk", "Inscripcion.findAll">>
    /\ Rechazadas = {3}
    /\ resultado.valor.valido = FALSE
    /\ resultado.valor.mensaje = ErrorDeConsulta
    /\ calculos = 0

\* the stored rows of the student and the term of the call
FilasDelTermino ==
    {i \in 1..Len(bd.inscripciones) :
        /\ bd.inscripciones[i].id_estudiante = llamada.idEstudiante.v
        /\ bd.inscripciones[i].semestre.anio = llamada.anio.v
        /\ bd.inscripciones[i].semestre.numero_semestre = llamada.numeroSemestre.v}

\* those with at least one evaluation record, scored or not
FilasConEvaluaciones ==
    {i \in FilasDelTermino : Len(bd.inscripciones[i].calificaciones.items) > 0}

\* the step of validarCalificacionesExistentes after its fetch came back
ValidaElResultado == pc = "validar" /\ pc' = "validado"

\* C30: validarCalificacionesExistentes returns valido: true exactly when
\* its fetch succeeded and a course of the term has an evaluation record,
\* scored or not; when the fetch failed it returns valido: false with the
\* message of the fetch; on success cursosConCalificaciones <= totalCursos
\* and valido is the same as cursosConCalificaciones > 0.
C30_ValidarExistentes ==
    [][ValidaElResultado =>
          /\ resultado.tipo = "retorno"
          /\ resultado'.tipo = "retorno"
          /\ resultado'.valor.valido
                 <=> (resultado.valor.success /\ FilasConEvaluaciones # {})
          /\ ~resultado.valor.success =>
                 /\ resultado'.valor.valido = FALSE
                 /\ resultado'.valor.mensaje = resultado.valor.mensaje
          /\ resultado.valor.success =>
                 /\ resultado'.valor.totalCursos = Cardinality(FilasDelTermino)
                 /\ resultado'.valor.cursosConCalificaciones
                        = Cardinality(FilasConEvaluaciones)
                 /\ resultado'.valor.cursosConCalificaciones
                        <= resultado'.valor.totalCursos
                 /\ resultado'.valor.valido
                        <=> resultado'.valor.cursosConCalificaciones > 0]_vars

\* a term whose two courses have evaluation records, neither with a final
\* grade: valid, 2 of 2 courses
C30_Witness ==
    /\ pc = "validado"
    /\ Cardinality(FilasDelTermino) = 2
    /\ \A i \in FilasDelTermino :
           /\ Len(bd.inscripciones[i].calificaciones.items) = 2
           /\ PesoPuntuado(bd.inscripciones[i].calificaciones.items) = 0
    /\ resultado.valor.valido = TRUE
    /\ resultado.valor.cursosConCalificaciones = 2
    /\ resultado.valor.totalCursos = 2

-----------------------------------------------------------------------------
(* The handlers of CalificacionController                                  *)
(* (src/app/controllers/calificacion.controller.js).  A handler runs from  *)
(* one await to the next in one step; the service it awaits runs in the    *)
(* steps of the service calls above, and its result is read when the       *)
(* service has returned.  ReporteConfig and ReporteService are             *)
(* collaborators whose outcome is an input.  Another request may change    *)
(* the stored rows between two steps.                                      *)

MaxEscrituras == 1

Handlers ==
    {"generarDocumentoCalificaciones", "obtenerVistaPrevia",
     "obtenerSemestresEstudiante", "validarCalificaciones"}

\* the handlers that read req.params, which holds strings
LeeParams(handler) == handler \in {"obtenerVistaPrevia", "obtenerSemestresEstudiante"}

\* parseInt of a value of req.params
parseInt(x) == IF x.k = "num" THEN x ELSE NaN

isNaN(x) == x.k # "num"

\* idEstudiante, anio and numeroSemestre of req.body or req.params: missing
\* or not a number, student 1, the stored term 2024/1, the absent 2030/1
Peticiones ==
    { [handler |-> h, errores |-> e, idEstudiante |-> id, anio |-> a,
       numeroSemestre |-> Entero(1)] :
          h \in Handlers, e \in BOOLEAN,
          id \in {Undefined, Texto, Entero(1)}, a \in {Entero(2024), Entero(2030)} }

PeticionesPosibles ==
    { p \in Peticiones :
        /\ p.errores => p.handler = "generarDocumentoCalificaciones"
        /\ p.idEstudiante = Texto => LeeParams(p.handler)
        /\ p.idEstudiante = Undefined => ~LeeParams(p.handler) }

\* the arguments the handler hands to the service
ArgumentoDe(x) == IF LeeParams(peticion.handler) THEN parseInt(x) ELSE x

InitControlador ==
    /\ errorBinario = 1
    /\ SinPlantilla
    /\ SinOrden
    /\ SinConcurrencia
    /\ SinNota
    /\ inscripciones = <<>>
    /\ SinEstadisticas
    /\ SinProgresion
    /\ bd \in [semestres : {SemestresGuardados},
               estudiantes : {EstudiantesGuardados},
               inscripciones : FilasGuardadas]
    /\ llamada = [servicio |-> "", desde |-> "", idEstudiante |-> Undefined,
                  anio |-> Undefined, numeroSemestre |-> Undefined]
    /\ pc = "libre"
    /\ semestreLeido = SinSemestre
    /\ consultas = <<>>
    /\ calculos = 0
    /\ resultado = EnCurso
    /\ SinHistorial
    /\ peticion \in PeticionesPosibles
    /\ pcControlador = "inicio"
    /\ respuestas = <<>>
    /\ pasos = <<>>
    /\ resultadoCalificaciones = Pendiente
    /\ datosReporte = Pendiente
    /\ escrituras = 0

Paso(nombre, estado) == [paso |-> nombre, estado |-> estado]

\* what a collaborator returned: success or valido true, or false
Exito(logrado) == IF logrado THEN "exito" ELSE "fallo"

\* the outcome of the collaborator invoked last
Resuelto(estado) == [pasos EXCEPT ![Len(pasos)].estado = estado]

\* a handler that sent a response without a return goes on
TrasResponderSinReturn(siguiente) == siguiente

\* return res.status(...).json(...): the handler is over
TrasResponder(siguiente) == "terminado"

\* the check of validacion.valido left out
ValidacionSiempreAprobada(validacion) == TRUE

\* !validacion.valido is false
ValidacionAprobada(validacion) == validacion.valido

\* res.status(status).json(cuerpo)
Responder(status) == respuestas' = Append(respuestas, status)

\* the service state once the handler has read the result it awaited
SoltarServicio ==
    /\ pc' = "libre"
    /\ consultas' = <<>>
    /\ resultado' = EnCurso
    /\ semestreLeido' = SinSemestre
    /\ UNCHANGED <<bd, llamada, calculos, historial>>

ServicioQuieto == UNCHANGED varsServicio

Ajenas ==
    <<errorBinario, varsNota, inscripciones, varsEst, varsProg, varsPlantilla, varsOrden,
      varsConcurrencia>>

\* CalificacionesTemplate.generarDatos(resultadoCalificaciones, ...): the
\* student, the term and the courses of the result
generarDatos(datosCalificaciones) ==
    [estudiante |-> datosCalificaciones.data.estudiante,
     periodo |-> datosCalificaciones.data.semestre,
     detallesCursos |-> datosCalificaciones.data.cursos,
     resumen |-> datosCalificaciones.data.estadisticas]

\* a handler up to its first await or its first response
Atender ==
    /\ pcControlador = "inicio"
    /\ IF peticion.handler = "generarDocumentoCalificaciones"
       THEN IF peticion.errores
            THEN /\ Responder(400)
                 /\ pasos' = <<Paso("validationResult", "fallo")>>
                 /\ pcControlador' = TrasResponder("obtener")
            ELSE /\ pasos' = <<Paso("validationResult", "exito"),
                               Paso("obtenerCalificacionesPorSemestre", "pendiente")>>
                 /\ pcControlador' = "obtener"
                 /\ UNCHANGED respuestas
       ELSE IF peticion.handler = "obtenerVistaPrevia"
       THEN IF \/ isNaN(parseInt(peticion.idEstudiante))
               \/ isNaN(parseInt(peticion.anio))
               \/ isNaN(parseInt(peticion.numeroSemestre))
            THEN /\ Responder(400)
                 /\ pasos' = <<Paso("parseInt", "fallo")>>
                 /\ pcControlador' = TrasResponder("obtener")
            ELSE /\ pasos' = <<Paso("obtenerCalificacionesPorSemestre", "pendiente")>>
                 /\ pcControlador' = "obtener"
                 /\ UNCHANGED respuestas
       ELSE IF peticion.handler = "obtenerSemestresEstudiante"
       THEN IF isNaN(parseInt(peticion.idEstudiante))
            THEN /\ Responder(400)
                 /\ pasos' = <<Paso("parseInt", "fallo")>>
                 /\ pcControlador' = TrasResponder("semestres")
            ELSE /\ pasos' = <<Paso("obtenerSemestresDisponibles", "pendiente")>>
                 /\ pcControlador' = "semestres"
                 /\ UNCHANGED respuestas
       ELSE /\ pasos' = <<Paso("validarCalificacionesExistentes", "pendiente")>>
            /\ pcControlador' = "validar"
            /\ UNCHANGED respuestas
    /\ ServicioQuieto
    /\ UNCHANGED <<peticion, resultadoCalificaciones, datosReporte, escrituras, Ajenas>>

\* the service the handler awaits, up to the first await of the service
EmpezarServicio ==
    /\ pc = "libre"
    /\ \/ /\ pcControlador = "obtener"
          /\ LlamarCalificaciones
          /\ llamada'.desde = ""
       \/ /\ pcControlador = "validar"
          /\ LlamarCalificaciones
          /\ llamada'.desde = "validarCalificacionesExistentes"
       \/ /\ pcControlador = "semestres"
          /\ LlamarSemestresDisponibles
    /\ llamada'.idEstudiante = ArgumentoDe(peticion.idEstudiante)
    /\ llamada'.servicio = "calificaciones" =>
           /\ llamada'.anio = ArgumentoDe(peticion.anio)
           /\ llamada'.numeroSemestre = ArgumentoDe(peticion.numeroSemestre)

\* generarDocumentoCalificaciones from the result of
\* obtenerCalificacionesPorSemestre to its next await
RecibirCalificacionesDocumento ==
    /\ peticion.handler = "generarDocumentoCalificaciones"
    /\ pcControlador = "obtener"
    /\ pc = "fin"
    /\ IF ~resultado.valor.success
       THEN /\ Responder(400)
            /\ pasos' = Resuelto(Exito(resultado.valor.success))
            /\ pcControlador' = TrasResponder("validar")
            /\ UNCHANGED resultadoCalificaciones
       ELSE /\ resultadoCalificaciones' = resultado.valor
            /\ pasos' = Append(Resuelto(Exito(resultado.valor.success)),
                               Paso("validarCalificacionesExistentes", "pendiente"))
            /\ pcControlador' = "validar"
            /\ UNCHANGED respuestas
    /\ SoltarServicio
    /\ UNCHANGED <<peticion, datosReporte, escrituras, Ajenas>>

\* generarDocumentoCalificaciones from the result of
\* validarCalificacionesExistentes to its next await: generarDatos, and
\* ReporteConfig taken from db.reportes || {}
RecibirValidacionDocumento ==
    /\ peticion.handler = "generarDocumentoCalificaciones"
    /\ pcControlador = "validar"
    /\ pc = "validado"
    /\ IF ~ValidacionAprobada(resultado.valor)
       THEN /\ Responder(400)
            /\ pasos' = Resuelto(Exito(resultado.valor.valido))
            /\ pcControlador' = TrasResponder("configuracion")
            /\ UNCHANGED datosReporte
       ELSE /\ datosReporte' = generarDatos(resultadoCalificaciones)
            /\ \E hayReporteConfig \in BOOLEAN :
                   IF hayReporteConfig
                   THEN /\ pasos' = Append(Resuelto(Exito(resultado.valor.valido)),
                                           Paso("ReporteConfig.findOne", "pendiente"))
                        /\ pcControlador' = "configuracion"
                        /\ UNCHANGED respuestas
                   ELSE /\ pasos' = Append(Resuelto(Exito(resultado.valor.valido)),
                                           Paso("ReporteConfig.findOne", "excepcion"))
                        /\ Responder(500)
                        /\ pcControlador' = "terminado"
    /\ SoltarServicio
    /\ UNCHANGED <<peticion, resultadoCalificaciones, escrituras, Ajenas>>

\* await ReporteConfig.findOne(...) settles; on a row, up to
\* ReporteService.generarReporte(...)
RecibirConfiguracion ==
    /\ pcControlador = "configuracion"
    /\ \E configuracion \in {"rechazada", "null", "fila"} :
           IF configuracion = "rechazada"
           THEN /\ pasos' = Resuelto("excepcion")
                /\ Responder(500)
                /\ pcControlador' = "terminado"
           ELSE IF configuracion = "null"
           THEN /\ pasos' = Resuelto("ausente")
                /\ Responder(500)
                /\ pcControlador' = TrasResponder("generar")
           ELSE /\ pasos' = Append(Resuelto("exito"), Paso("generarReporte", "pendiente"))
                /\ pcControlador' = "generar"
                /\ UNCHANGED respuestas
    /\ ServicioQuieto
    /\ UNCHANGED <<peticion, resultadoCalificaciones, datosReporte, escrituras, Ajenas>>

\* await ReporteService.generarReporte(...) settles
RecibirReporte ==
    /\ pcControlador = "generar"
    /\ \E resultadoGeneracion \in {"rechazada", "exito", "fracaso"} :
           IF resultadoGeneracion = "rechazada"
           THEN /\ pasos' = Resuelto("excepcion")
                /\ Responder(500)
           ELSE IF resultadoGeneracion = "exito"
           THEN /\ pasos' = Resuelto("exito")
                /\ Responder(200)
           ELSE /\ pasos' = Resuelto("fallo")
                /\ Responder(400)
    /\ pcControlador' = "terminado"
    /\ ServicioQuieto
    /\ UNCHANGED <<peticion, resultadoCalificaciones, datosReporte, escrituras, Ajenas>>

\* obtenerVistaPrevia from the result of obtenerCalificacionesPorSemestre
RecibirCalificacionesVistaPrevia ==
    /\ peticion.handler = "obtenerVistaPrevia"
    /\ pcControlador = "obtener"
    /\ pc = "fin"
    /\ IF resultado.valor.success
       THEN /\ datosReporte' = generarDatos(resultado.valor)
            /\ pasos' = Resuelto("exito")
            /\ Responder(200)
       ELSE /\ pasos' = Resuelto("fallo")
            /\ Responder(400)
            /\ UNCHANGED datosReporte
    /\ pcControlador' = "terminado"
    /\ SoltarServicio
    /\ UNCHANGED <<peticion, resultadoCalificaciones, escrituras, Ajenas>>

\* obtenerSemestresEstudiante from the result of obtenerSemestresDisponibles
RecibirSemestresEstudiante ==
    /\ peticion.handler = "obtenerSemestresEstudiante"
    /\ pcControlador = "semestres"
    /\ pc = "fin"
    /\ IF resultado.valor.success
       THEN /\ pasos' = Resuelto("exito")
            /\ Responder(200)
       ELSE /\ pasos' = Resuelto("fallo")
            /\ Responder(400)
    /\ pcControlador' = "terminado"
    /\ SoltarServicio
    /\ UNCHANGED <<peticion, resultadoCalificaciones, datosReporte, escrituras, Ajenas>>

\* validarCalificaciones from the result of validarCalificacionesExistentes
RecibirValidacion ==
    /\ peticion.handler = "validarCalificaciones"
    /\ pcControlador = "validar"
    /\ pc = "validado"
    /\ pasos' = Resuelto(Exito(resultado.valor.valido))
    /\ Responder(200)
    /\ pcControlador' = "terminado"
    /\ SoltarServicio
    /\ UNCHANGED <<peticion, resultadoCalificaciones, datosReporte, escrituras, Ajenas>>

\* another request replaces the evaluation records of a stored row while
\* the handler is at an await
Escribir ==
    /\ pcControlador \notin {"inicio", "terminado"}
    /\ escrituras < MaxEscrituras
    /\ \E i \in 1..Len(bd.inscripciones), c \in CursosGuardados :
           /\ bd.inscripciones[i].calificaciones # Arreglo(c[2])
           /\ bd' = [bd EXCEPT !.inscripciones[i].calificaciones = Arreglo(c[2])]
    /\ escrituras' = escrituras + 1
    /\ UNCHANGED <<llamada, pc, semestreLeido, consultas, calculos, resultado, historial>>
    /\ UNCHANGED <<peticion, pcControlador, respuestas, pasos, resultadoCalificaciones,
                   datosReporte, Ajenas>>

NextControlador ==
    \/ Atender
    \/ EmpezarServicio
    \/ RecibirSemestre
    \/ RecibirEstudiante
    \/ RecibirInscripciones
    \/ ValidarCalificacionesExistentes
    \/ RecibirSemestres
    \/ RecibirCalificacionesDocumento
    \/ RecibirValidacionDocumento
    \/ RecibirConfiguracion
    \/ RecibirReporte
    \/ RecibirCalificacionesVistaPrevia
    \/ RecibirSemestresEstudiante
    \/ RecibirValidacion
    \/ Escribir

SpecControlador == InitControlador /\ [][NextControlador]_vars

-----------------------------------------------------------------------------
(* Claims on the handlers (SpecControlador) *)

Nombres == [i \in 1..Len(pasos) |-> pasos[i].paso]

Invocado(nombre) == {i \in 1..Len(pasos) : pasos[i].paso = nombre}

EsDocumento == peticion.handler = "generarDocumentoCalificaciones"

\* C26: whenever generarDocumentoCalificaciones starts the generation of
\* the report, the report data holds at least one course with at least one
\* evaluation record, also when another request changes the stored rows
\* between the awaits of the handler.
C26_UnaSolaInstantanea ==
    (EsDocumento /\ Invocado("generarReporte") # {}) =>
        \E k \in 1..Len(datosReporte.detallesCursos) :
            Len(datosReporte.detallesCursos[k].calificaciones) > 0

\* the steps of generarDocumentoCalificaciones, in the order of the code
PasosDelDocumento ==
    <<"validationResult", "obtenerCalificacionesPorSemestre",
      "validarCalificacionesExistentes", "ReporteConfig.findOne", "generarReporte">>

\* C27: generarDocumentoCalificaciones invokes generarReporte at most once,
\* and only after validation of the request, obtenerCalificacionesPorSemestre,
\* validarCalificacionesExistentes and the lookup of the configuration
\* succeeded, in this order; it answers 200 only when generarReporte
\* returned success; a step that fails is the last step invoked.
C27_OrdenDeLosPasos ==
    EsDocumento =>
        /\ Cardinality(Invocado("generarReporte")) <= 1
        /\ Nombres = SubSeq(PasosDelDocumento, 1, Len(pasos))
        /\ \A i \in 1..Len(pasos) :
               pasos[i].estado # "exito" => i = Len(pasos)
        /\ (\E r \in 1..Len(respuestas) : respuestas[r] = 200) =>
               /\ Len(pasos) = 5
               /\ pasos[5].estado = "exito"

\* the five steps succeeded and the answer is 200
C27_Witness ==
    /\ EsDocumento
    /\ pcControlador = "terminado"
    /\ Nombres = PasosDelDocumento
    /\ \A i \in 1..5 : pasos[i].estado = "exito"
    /\ respuestas = <<200>>

\* C28: every handler sends exactly one response: none before it is over
\* and one, never two, when it is; the status is 200, 400 or 500, and 500
\* only when an exception was caught or the report configuration is absent.
C28_UnaRespuesta ==
    /\ Len(respuestas) <= 1
    /\ pcControlador = "terminado" <=> Len(respuestas) = 1
    /\ \A r \in 1..Len(respuestas) :
           /\ respuestas[r] \in {200, 400, 500}
           /\ respuestas[r] = 500
                  <=> pasos[Len(pasos)].estado \in {"excepcion", "ausente"}

\* generarReporte rejects: the catch block answers 500, once
C28_Witness ==
    /\ EsDocumento
    /\ pcControlador = "terminado"
    /\ Nombres = PasosDelDocumento
    /\ pasos[5].estado = "excepcion"
    /\ respuestas = <<500>>

-----------------------------------------------------------------------------
(* Service calls in flight together.  The three calls are static async     *)
(* methods: their parameters and their consts (semestre, estudiante,       *)
(* inscripciones) live in the activation of the call, and control can pass *)
(* to another call only at an await (the lookups, and Promise.all over the *)
(* rows of obtenerCalificacionesPorSemestre).  A call is a record of       *)
(* llamadas; a step is one await of one call settling.  The methods call   *)
(* findOne, findByPk and findAll only, so no step assigns bd.              *)
(* semestreLeido keeps the row the latest Semestre.findOne of any call     *)
(* gave: the code has no such module-level variable and no operator of the *)
(* calls reads it.                                                         *)

MaxConcurrentes == 2

\* student 1 enrolled in a course of the first term, then in one of the
\* second
FilasConcurrentes ==
    {s \in FilasGuardadas :
        /\ Len(s) = 2
        /\ s[1].id_estudiante = 1
        /\ s[2].id_estudiante = 1
        /\ s[1].semestre.numero_semestre = 1
        /\ s[2].semestre.numero_semestre = 2}

\* the calls that may arrive: grades of a term (3 is no term number), the
\* complete validation, the terms of the student
LlamadasPosibles ==
    [servicio : {"calificaciones"}, idEstudiante : {Entero(1)},
     anio : {Entero(2024)}, numeroSemestre : {Entero(1), Entero(2), Entero(3)}]
    \cup [servicio : {"validacion"}, idEstudiante : {Undefined, Entero(1)},
          anio : {Undefined}, numeroSemestre : {Undefined}]
    \cup [servicio : {"semestres"}, idEstudiante : {Entero(1)},
          anio : {Undefined}, numeroSemestre : {Undefined}]

InitConcurrente ==
    /\ errorBinario = 1
    /\ SinPlantilla
    /\ SinOrden
    /\ SinControlador
    /\ SinNota
    /\ inscripciones = <<>>
    /\ SinEstadisticas
    /\ SinProgresion
    /\ bd \in [semestres : {SemestresGuardados},
               estudiantes : {EstudiantesGuardados},
               inscripciones : FilasConcurrentes]
    /\ llamada = [servicio |-> "", desde |-> "", idEstudiante |-> Undefined,
                  anio |-> Undefined, numeroSemestre |-> Undefined]
    /\ pc = "reposo"
    /\ semestreLeido = SinSemestre
    /\ consultas = <<>>
    /\ calculos = 0
    /\ resultado = EnCurso
    /\ SinHistorial
    /\ llamadas = <<>>

\* a call with arguments a, run up to its first await
Llegada(a) ==
    LET error == IF a.servicio = "calificaciones"
                 THEN ErrorDeParametros(a.idEstudiante, a.anio, a.numeroSemestre)
                 ELSE IF a.servicio = "validacion"
                 THEN ErrorDeIdEstudiante(a.idEstudiante)
                 ELSE ""
    IN  [servicio |-> a.servicio,
         idEstudiante |-> a.idEstudiante,
         anio |-> a.anio,
         numeroSemestre |-> a.numeroSemestre,
         pc |-> IF error # "" THEN "fin"
                ELSE IF a.servicio = "calificaciones" THEN "semestre"
                ELSE IF a.servicio = "validacion" THEN "estudiante"
                ELSE "semestres",
         semestre |-> SinSemestre,
         inscripciones |-> <<>>,
         rechazos |-> <<>>,
         resultado |-> IF error # "" THEN Capturar(error) ELSE EnCurso]

\* a semestre kept in a variable of the module, which every call assigns
SemestreDelModulo(l) == semestreLeido

\* const semestre = await Semestre.findOne(...): the semestre the call l
\* reads in its later steps is the one of its own activation
SemestreLocal(l) == l.semestre

\* the call l after the await it is at settles, rejected or not, up to its
\* next await or its return; semestre_ is what it reads as semestre.  At
\* "cursos" the call awaits Promise.all over its own mapped rows.
Avance(l, rechazada, semestre_) ==
    LET con == [l EXCEPT !.rechazos = Append(@, rechazada)]
        Termina(r) == [con EXCEPT !.pc = "fin", !.resultado = r]
    IN  CASE l.pc = "semestre" ->
                 IF rechazada
                 THEN Termina(Capturar(ErrorDeConsulta))
                 ELSE IF SemestresCon(l.anio, l.numeroSemestre) = {}
                 THEN Termina(Capturar("Semestre " \o ToString(l.numeroSemestre.v) \o "/"
                                           \o ToString(l.anio.v) \o " no encontrado"))
                 ELSE [con EXCEPT
                           !.pc = "estudiante",
                           !.semestre =
                               CHOOSE s \in SemestresCon(l.anio, l.numeroSemestre) : TRUE]
           [] l.pc = "estudiante" ->
                 IF rechazada
                 THEN Termina(Capturar(ErrorDeConsulta))
                 ELSE IF ~ExisteEstudiante(l.idEstudiante)
                 THEN Termina(Capturar("Estudiante no encontrado"))
                 ELSE [con EXCEPT !.pc = "inscripciones"]
           [] l.pc = "inscripciones" ->
                 IF rechazada
                 THEN Termina(Capturar(ErrorDeConsulta))
                 ELSE IF l.servicio = "calificaciones"
                 THEN [con EXCEPT
                           !.pc = "cursos",
                           !.inscripciones =
                               InscripcionesDelSemestre(l.idEstudiante, semestre_.id)]
                 ELSE Termina(RespuestaValidacion(
                                  l.idEstudiante, InscripcionesDelEstudiante(l.idEstudiante)))
           [] l.pc = "cursos" ->
                 Termina(RespuestaCalificaciones(l.idEstudiante, semestre_, l.inscripciones))
           [] l.pc = "semestres" ->
                 IF rechazada
                 THEN Termina(CapturarSemestres(ErrorDeConsulta))
                 ELSE Termina(RespuestaSemestres(
                                  EnOrdenDescendente(SemestresDelEstudiante(l.idEstudiante))))

\* a request calls one of the three methods while others are in flight
Llegar ==
    /\ Len(llamadas) < MaxConcurrentes
    /\ \E a \in LlamadasPosibles : llamadas' = Append(llamadas, Llegada(a))
    /\ UNCHANGED <<errorBinario, varsNota, inscripciones, varsEst, varsProg,
                   varsServicio, varsPlantilla, varsOrden, varsControlador>>

\* the await one of the calls is at settles, and that call runs on
Resolver ==
    /\ \E i \in 1..Len(llamadas), rechazada \in BOOLEAN :
           /\ llamadas[i].pc # "fin"
           /\ llamadas[i].pc = "cursos" => ~rechazada
           /\ LET l == Avance(llamadas[i], rechazada, SemestreLocal(llamadas[i]))
              IN  /\ llamadas' = [llamadas EXCEPT ![i] = l]
                  /\ semestreLeido' = IF llamadas[i].pc = "semestre" /\ l.pc = "estudiante"
                                      THEN l.semestre
                                      ELSE semestreLeido
    /\ UNCHANGED <<errorBinario, varsNota, inscripciones, varsEst, varsProg, bd, llamada,
                   pc, consultas, calculos, resultado, historial, varsPlantilla,
                   varsOrden, varsControlador>>

NextConcurrente == Llegar \/ Resolver

SpecConcurrente == InitConcurrente /\ [][NextConcurrente]_vars

-----------------------------------------------------------------------------
(* Claims on the calls in flight together (SpecConcurrente) *)

ArgumentosDeLaLlamada(l) ==
    [servicio |-> l.servicio, idEstudiante |-> l.idEstudiante, anio |-> l.anio,
     numeroSemestre |-> l.numeroSemestre]

\* the call with the arguments of l run by itself over bd, its first k
\* lookups settling as those of l did
RECURSIVE Repetida(_, _)
Repetida(l, k) ==
    IF k = 0
    THEN Llegada(ArgumentosDeLaLlamada(l))
    ELSE LET antes == Repetida(l, k - 1)
         IN  Avance(antes, l.rechazos[k], antes.semestre)

Sola(l) == Repetida(l, Len(l.rechazos))

Terminadas == {i \in 1..Len(llamadas) : llamadas[i].pc = "fin"}

\* the calls ls hold and have returned what they do when run by themselves
SinInterferir(ls) ==
    \A i \in 1..Len(ls) :
        /\ ls[i].semestre = Sola(ls[i]).semestre
        /\ ls[i].inscripciones = Sola(ls[i]).inscripciones
        /\ ls[i].pc = Sola(ls[i]).pc
        /\ ls[i].pc = "fin" => ls[i].resultado = Sola(ls[i]).resultado

====
